---- MODULE Spec2Model ----
(***************************************************************************)
(* Model of the LinkedIn export ingestion pipeline:                        *)
(*   - the repository layer (app/db/repo.py): idempotent upserts over the  *)
(*     tables of app/db/models.py;                                         *)
(*   - the normalizer (app/services/normalize.py);                         *)
(*   - the orchestrator (app/scheduler/jobs.py) and its callers            *)
(*     (app/api/routes.py, the APScheduler wrapper).                       *)
(*                                                                         *)
(* Specifications:                                                         *)
(*   SpecRepo    any sequence of repository calls on one session           *)
(*   SpecWiden   message and conversation upserts against stored bounds    *)
(*   SpecNorm    normalize_all applied to bounded raw inputs, and the      *)
(*               insertion of the result after earlier runs                *)
(*   Spec        ingestion runs against the database, one after the other  *)
(*               and overlapping, statement by statement, with the         *)
(*               archives of Sources in the file system                    *)
(*   SpecExchange  the same runs, with a two-message exchange and a        *)
(*               message without sender in the file system                 *)
(*   SpecRejected  the same runs, with the archives whose rows the         *)
(*               insertion stage rejects and the archives without rows     *)
(*   SpecReconcile  the two reconciliation functions on bounded counts     *)
(*   SpecFlight  interleavings of API requests, background tasks and       *)
(*               scheduler-triggered runs around the "is running" flag     *)
(***************************************************************************)
EXTENDS Integers, Sequences, FiniteSets, TLC

VARIABLES
    db,               \* committed database state (what a new session reads)
    tx,               \* the open session's view: db plus flushed, uncommitted changes
    clock,            \* datetime.utcnow() / func.now(), as a logical time
    raw,              \* SpecNorm: the raw table map handed to normalize_all;
                      \* SpecReconcile: the arguments of the reconciliation call
    normalized,       \* SpecNorm: the result of normalize_all
    run,              \* Spec: the run_ingestion activations by run id, idle or in progress;
                      \* SpecNorm: what the insertion stage of the observed run returned
    history,          \* Spec: run status records returned so far, oldest first;
                      \* SpecNorm: what the earlier runs normalized and counted
    current_run_id,   \* IngestionJob.current_run_id
    last_run_status,  \* IngestionJob.last_run_status
    tasks,            \* SpecFlight: background tasks queued by run_now, not started
    threads,          \* SpecFlight: run_ingestion activations in progress
    next_id,          \* SpecFlight: source of fresh run ids (uuid4)
    last_call,        \* SpecRepo, SpecWiden: the repository call made last
    calls,            \* SpecRepo, SpecWiden: what the caller has asked for so far
    service_stats,    \* Spec: normalize_service.stats, the counters of the shared singleton
    hash_seed,        \* Spec: the set iteration orders the process has produced so far,
                      \* by raw conversation table (the string hash seed is drawn once)
    incoming          \* Spec: the archives in the file system, by content hash

vars == <<db, tx, clock, raw, normalized, run, history,
          current_run_id, last_run_status, tasks, threads, next_id,
          last_call, calls, service_stats, hash_seed, incoming>>

(***************************************************************************)
(* Values                                                                  *)
(***************************************************************************)

\* Python None for an optional string column or argument.
NONE == "NONE"

\* Python None for an optional datetime column or argument; real
\* timestamps are the positive integers 1..MaxTime.
NoTime == 0

\* Python truthiness of an optional string: None and "" are falsy.
Truthy(s) == s # NONE /\ s # ""

\* IngestionJob.last_run_status before any run has returned (None), in the
\* shape of a status record.
NoStatus == [run_id |-> NONE, status |-> NONE]

\* NormalizeService._reset_stats: every counter at 0
ZeroStats ==
    [participants_processed |-> 0, participants_skipped |-> 0,
     conversations_processed |-> 0, conversations_skipped |-> 0,
     messages_processed |-> 0, messages_skipped |-> 0,
     validation_errors |-> 0]

Min(a, b) == IF a <= b THEN a ELSE b
Max(a, b) == IF a >= b THEN a ELSE b

(***************************************************************************)
(* Bounds                                                                  *)
(***************************************************************************)

\* Largest timestamp drawn for sent_at / first_message_at / last_message_at.
MaxTime == 3

\* Number of repository calls in one SpecRepo behaviour.
MaxOps == 3

\* Number of repository calls in one SpecWiden behaviour.
MaxCalls == 3

\* Largest number of raw records per table in a SpecNorm input.
MaxRaw == 2

Times == 1..MaxTime
OptTimes == {NoTime} \cup Times

(***************************************************************************)
(* The database: one sequence of rows per table.  A row's primary key     *)
(* (autoincrement id) is its position in the sequence; nothing in the     *)
(* pipeline deletes rows.                                                  *)
(***************************************************************************)

EmptyDb ==
    [participants  |-> <<>>,
     conversations |-> <<>>,
     messages      |-> <<>>,
     conversation_participants |-> <<>>,
     message_ingestion_tracking |-> <<>>,
     ingestion_runs |-> <<>>]

\* session.query(T).filter(pred).first(), given the ids of the rows that
\* match: the lowest of them, 0 if none.
First(matching) ==
    IF matching # {}
    THEN CHOOSE i \in matching : \A j \in matching : i <= j
    ELSE 0

(***************************************************************************)
(* Repository: participants                                                *)
(***************************************************************************)

\* Mutant of upsert_participant: stamps updated_at on every call for an
\* existing row, whether or not a field changed.
upsert_participant_always_touch(s, now, linkedin_id, full_name, profile_url, email, headline) ==
    LET i == First({ix \in DOMAIN s.participants :
                     /\ s.participants[ix].linkedin_id = linkedin_id}) IN
    IF i # 0
    THEN LET e == s.participants[i] IN
         [s EXCEPT !.participants[i] =
            [e EXCEPT
               !.full_name   = IF Truthy(full_name) THEN full_name ELSE @,
               !.profile_url = IF Truthy(profile_url) THEN profile_url ELSE @,
               !.email       = IF Truthy(email) THEN email ELSE @,
               !.headline    = IF Truthy(headline) THEN headline ELSE @,
               !.updated_at  = now]]
    ELSE [s EXCEPT !.participants = Append(@,
            [linkedin_id |-> linkedin_id, full_name |-> full_name,
             profile_url |-> profile_url, email |-> email,
             headline |-> headline, updated_at |-> now])]

\* Mutant of upsert_participant: an existing row takes every argument as
\* given, empty ones included.
upsert_participant_overwrites(s, now, linkedin_id, full_name, profile_url, email, headline) ==
    LET i == First({ix \in DOMAIN s.participants :
                     /\ s.participants[ix].linkedin_id = linkedin_id}) IN
    IF i # 0
    THEN [s EXCEPT !.participants[i] =
            [linkedin_id |-> linkedin_id, full_name |-> full_name,
             profile_url |-> profile_url, email |-> email,
             headline |-> headline, updated_at |-> now]]
    ELSE [s EXCEPT !.participants = Append(@,
            [linkedin_id |-> linkedin_id, full_name |-> full_name,
             profile_url |-> profile_url, email |-> email,
             headline |-> headline, updated_at |-> now])]

\* Mutant of upsert_participant: no lookup by linkedin_id, always inserts.
upsert_participant_always_insert(s, now, linkedin_id, full_name, profile_url, email, headline) ==
    [s EXCEPT !.participants = Append(@,
        [linkedin_id |-> linkedin_id, full_name |-> full_name,
         profile_url |-> profile_url, email |-> email,
         headline |-> headline, updated_at |-> now])]

\* DatabaseRepository.upsert_participant: the session state after the call.
upsert_participant(s, now, linkedin_id, full_name, profile_url, email, headline) ==
    LET i == First({ix \in DOMAIN s.participants :
                     /\ s.participants[ix].linkedin_id = linkedin_id}) IN
    IF i # 0
    THEN LET e  == s.participants[i]
             c1 == Truthy(full_name) /\ e.full_name # full_name
             c2 == Truthy(profile_url) /\ e.profile_url # profile_url
             c3 == Truthy(email) /\ e.email # email
             c4 == Truthy(headline) /\ e.headline # headline
             updated == c1 \/ c2 \/ c3 \/ c4
         IN [s EXCEPT !.participants[i] =
               [e EXCEPT
                  !.full_name   = IF c1 THEN full_name ELSE @,
                  !.profile_url = IF c2 THEN profile_url ELSE @,
                  !.email       = IF c3 THEN email ELSE @,
                  !.headline    = IF c4 THEN headline ELSE @,
                  !.updated_at  = IF updated THEN now ELSE @]]
    ELSE [s EXCEPT !.participants = Append(@,
            [linkedin_id |-> linkedin_id, full_name |-> full_name,
             profile_url |-> profile_url, email |-> email,
             headline |-> headline, updated_at |-> now])]

\* The Participant object upsert_participant returns: its primary key.
id_of_participant(s, linkedin_id) ==
    First({ix \in DOMAIN s.participants : s.participants[ix].linkedin_id = linkedin_id})

(***************************************************************************)
(* Repository: conversations                                               *)
(***************************************************************************)

\* Mutant of upsert_conversation: the bounds of an existing row are
\* overwritten by the arguments.
upsert_conversation_overwrites_bounds(s, now, conversation_id, conversation_title, is_group_chat, first_message_at, last_message_at) ==
    LET i == First({ix \in DOMAIN s.conversations :
                     /\ s.conversations[ix].conversation_id = conversation_id}) IN
    IF i # 0
    THEN [s EXCEPT !.conversations[i] =
            [@ EXCEPT !.first_message_at = first_message_at,
                      !.last_message_at  = last_message_at,
                      !.updated_at       = now]]
    ELSE [s EXCEPT !.conversations = Append(@,
            [conversation_id |-> conversation_id,
             conversation_title |-> conversation_title,
             is_group_chat |-> is_group_chat,
             first_message_at |-> first_message_at,
             last_message_at |-> last_message_at,
             updated_at |-> now])]

\* DatabaseRepository.upsert_conversation
upsert_conversation(s, now, conversation_id, conversation_title, is_group_chat, first_message_at, last_message_at) ==
    LET i == First({ix \in DOMAIN s.conversations :
                     /\ s.conversations[ix].conversation_id = conversation_id}) IN
    IF i # 0
    THEN LET e  == s.conversations[i]
             c1 == Truthy(conversation_title) /\ e.conversation_title # conversation_title
             c2 == e.is_group_chat # is_group_chat
             c3 == /\ first_message_at # NoTime
                   /\ (e.first_message_at = NoTime \/ first_message_at < e.first_message_at)
             c4 == /\ last_message_at # NoTime
                   /\ (e.last_message_at = NoTime \/ last_message_at > e.last_message_at)
             updated == c1 \/ c2 \/ c3 \/ c4
         IN [s EXCEPT !.conversations[i] =
               [e EXCEPT
                  !.conversation_title = IF c1 THEN conversation_title ELSE @,
                  !.is_group_chat      = IF c2 THEN is_group_chat ELSE @,
                  !.first_message_at   = IF c3 THEN first_message_at ELSE @,
                  !.last_message_at    = IF c4 THEN last_message_at ELSE @,
                  !.updated_at         = IF updated THEN now ELSE @]]
    ELSE [s EXCEPT !.conversations = Append(@,
            [conversation_id |-> conversation_id,
             conversation_title |-> conversation_title,
             is_group_chat |-> is_group_chat,
             first_message_at |-> first_message_at,
             last_message_at |-> last_message_at,
             updated_at |-> now])]

\* The Conversation object upsert_conversation returns: its primary key.
id_of_conversation(s, conversation_id) ==
    First({ix \in DOMAIN s.conversations : s.conversations[ix].conversation_id = conversation_id})

\* Mutant of update_conversation_timestamps: widens the upper bound only.
update_conversation_timestamps_last_only(s, now, conversation_db_id, message_sent_at) ==
    IF conversation_db_id \in DOMAIN s.conversations
    THEN LET conv == s.conversations[conversation_db_id]
             c2 == conv.last_message_at = NoTime \/ message_sent_at > conv.last_message_at
         IN [s EXCEPT !.conversations[conversation_db_id] =
               [conv EXCEPT
                  !.last_message_at = IF c2 THEN message_sent_at ELSE @,
                  !.updated_at = IF c2 THEN now ELSE @]]
    ELSE s

\* DatabaseRepository.update_conversation_timestamps.  The flush of a changed
\* row runs the column's onupdate=func.now(), which stamps updated_at.
update_conversation_timestamps(s, now, conversation_db_id, message_sent_at) ==
    IF conversation_db_id \in DOMAIN s.conversations
    THEN LET conv == s.conversations[conversation_db_id]
             c1 == conv.first_message_at = NoTime \/ message_sent_at < conv.first_message_at
             c2 == conv.last_message_at = NoTime \/ message_sent_at > conv.last_message_at
         IN [s EXCEPT !.conversations[conversation_db_id] =
               [conv EXCEPT
                  !.first_message_at = IF c1 THEN message_sent_at ELSE @,
                  !.last_message_at  = IF c2 THEN message_sent_at ELSE @,
                  !.updated_at       = IF c1 \/ c2 THEN now ELSE @]]
    ELSE s

(***************************************************************************)
(* Repository: messages                                                    *)
(***************************************************************************)

\* DatabaseRepository.upsert_message.  Only the insert branch calls
\* update_conversation_timestamps; the update branch rewrites the row and
\* returns.
upsert_message(s, now, message_id, conversation_db_id, sender_db_id, content, sent_at) ==
    LET i == First({ix \in DOMAIN s.messages : s.messages[ix].message_id = message_id}) IN
    IF i # 0
    THEN LET e  == s.messages[i]
             c1 == content # NONE /\ e.content # content
             c2 == e.conversation_id # conversation_db_id
             c3 == e.sender_id # sender_db_id
             c4 == e.sent_at # sent_at
             updated == c1 \/ c2 \/ c3 \/ c4
         IN [s EXCEPT !.messages[i] =
               [e EXCEPT
                  !.content         = IF c1 THEN content ELSE @,
                  !.conversation_id = IF c2 THEN conversation_db_id ELSE @,
                  !.sender_id       = IF c3 THEN sender_db_id ELSE @,
                  !.sent_at         = IF c4 THEN sent_at ELSE @,
                  !.updated_at      = IF updated THEN now ELSE @]]
    ELSE update_conversation_timestamps(
            [s EXCEPT !.messages = Append(@,
                [message_id |-> message_id,
                 conversation_id |-> conversation_db_id,
                 sender_id |-> sender_db_id,
                 content |-> content,
                 sent_at |-> sent_at,
                 updated_at |-> now])],
            now, conversation_db_id, sent_at)

\* The Message object upsert_message returns: its primary key.
id_of_message(s, message_id) ==
    First({ix \in DOMAIN s.messages : s.messages[ix].message_id = message_id})

(***************************************************************************)
(* Repository: junction and tracking tables                                *)
(***************************************************************************)

\* DatabaseRepository.upsert_conversation_participant
upsert_conversation_participant(s, conversation_db_id, participant_db_id, joined_at, left_at) ==
    LET i == First({ix \in DOMAIN s.conversation_participants :
                     /\ s.conversation_participants[ix].conversation_id = conversation_db_id
                     /\ s.conversation_participants[ix].participant_id = participant_db_id}) IN
    IF i # 0
    THEN LET e  == s.conversation_participants[i]
             c1 == joined_at # NoTime /\ (e.joined_at = NoTime \/ joined_at < e.joined_at)
             c2 == left_at # NoTime /\ (e.left_at = NoTime \/ left_at > e.left_at)
         IN [s EXCEPT !.conversation_participants[i] =
               [e EXCEPT !.joined_at = IF c1 THEN joined_at ELSE @,
                         !.left_at   = IF c2 THEN left_at ELSE @]]
    ELSE [s EXCEPT !.conversation_participants = Append(@,
            [conversation_id |-> conversation_db_id,
             participant_id |-> participant_db_id,
             joined_at |-> joined_at, left_at |-> left_at])]

\* DatabaseRepository.track_message_ingestion
track_message_ingestion(s, message_db_id, ingestion_run_db_id, source_raw_hash) ==
    LET i == First({ix \in DOMAIN s.message_ingestion_tracking :
                     /\ s.message_ingestion_tracking[ix].message_id = message_db_id
                     /\ s.message_ingestion_tracking[ix].ingestion_run_id = ingestion_run_db_id}) IN
    IF i # 0
    THEN s
    ELSE [s EXCEPT !.message_ingestion_tracking = Append(@,
            [message_id |-> message_db_id,
             ingestion_run_id |-> ingestion_run_db_id,
             source_raw_hash |-> source_raw_hash])]

(***************************************************************************)
(* SpecRepo: any sequence of at most MaxOps repository calls on one        *)
(* session, arguments drawn from small sets.  Every call reads the time    *)
(* once; time advances between calls.  last_call records the call just     *)
(* made, so that it can be replayed.                                       *)
(***************************************************************************)

LinkedinIds     == {"p1", "p2"}
FullNames       == {"Ann", "Bob"}
\* (profile_url, email, headline) as passed by a caller
OptionalFields  == {<<NONE, NONE, NONE>>, <<"u1", "e1", "h1">>, <<"", "e2", "">>}
ConversationIds == {"c1", "c2"}
\* (conversation_title, is_group_chat)
TitleAndFlag    == {<<NONE, FALSE>>, <<"T1", TRUE>>, <<"T1", FALSE>>}
\* (first_message_at, last_message_at) / (joined_at, left_at)
RepoBounds      == {<<NoTime, NoTime>>, <<1, 2>>}
\* (joined_at, left_at)
JoinedLeft      == {<<NoTime, NoTime>>, <<2, 1>>, <<1, 2>>}
\* (content, sent_at)
ContentAndTime  == {<<NONE, 1>>, <<"hi", 1>>, <<"hi", 2>>}
RepoMessageIds  == {"m1", "m2"}
\* primary keys a caller may hold (rows 1 and 2 of a table)
DbIds           == {1, 2}

NoCall == [op |-> "none"]

\* The session state after replaying call c at time now.
Replay(s, now, c) ==
    CASE c.op = "upsert_participant" ->
            upsert_participant(s, now, c.linkedin_id, c.full_name,
                               c.profile_url, c.email, c.headline)
      [] c.op = "upsert_conversation" ->
            upsert_conversation(s, now, c.conversation_id, c.conversation_title,
                                c.is_group_chat, c.first_message_at, c.last_message_at)
      [] c.op = "upsert_message" ->
            upsert_message(s, now, c.message_id, c.conversation_db_id,
                           c.sender_db_id, c.content, c.sent_at)
      [] c.op = "upsert_conversation_participant" ->
            upsert_conversation_participant(s, c.conversation_db_id,
                                            c.participant_db_id, c.joined_at, c.left_at)
      [] c.op = "track_message_ingestion" ->
            track_message_ingestion(s, c.message_db_id, c.ingestion_run_db_id,
                                    c.source_raw_hash)
      [] OTHER -> s

Idle ==
    /\ raw = <<>>
    /\ normalized = <<>>
    /\ run = <<>>
    /\ history = <<>>
    /\ current_run_id = NONE
    /\ last_run_status = NoStatus
    /\ tasks = {}
    /\ threads = {}
    /\ next_id = 1

\* The natural keys the caller has upserted so far, per entity.
NoKeys == [participants |-> {}, conversations |-> {}, messages |-> {}]

KeysAfter(k, c) ==
    CASE c.op = "upsert_participant" ->
            [k EXCEPT !.participants = @ \cup {c.linkedin_id}]
      [] c.op = "upsert_conversation" ->
            [k EXCEPT !.conversations = @ \cup {c.conversation_id}]
      [] c.op = "upsert_message" ->
            [k EXCEPT !.messages = @ \cup {c.message_id}]
      [] OTHER -> k

RepoInit ==
    /\ db = EmptyDb
    /\ tx = EmptyDb
    /\ clock = 1
    /\ last_call = NoCall
    /\ calls = NoKeys
    /\ service_stats = ZeroStats
    /\ hash_seed = <<>>
    /\ incoming = {}
    /\ Idle

RepoFrame ==
    UNCHANGED <<db, raw, service_stats, hash_seed, incoming, normalized, run, history,
                current_run_id, last_run_status, tasks, threads, next_id>>

\* One repository call: the session after it, the time read, the call made.
Call(c) ==
    /\ tx' = Replay(tx, clock, c)
    /\ last_call' = c
    /\ calls' = KeysAfter(calls, c)
    /\ clock' = clock + 1
    /\ RepoFrame

CallUpsertParticipant ==
    /\ clock <= MaxOps
    /\ \E id \in LinkedinIds, fn \in FullNames, o \in OptionalFields :
          Call([op |-> "upsert_participant", linkedin_id |-> id, full_name |-> fn,
                profile_url |-> o[1], email |-> o[2], headline |-> o[3]])

CallUpsertConversation ==
    /\ clock <= MaxOps
    /\ \E id \in ConversationIds, tg \in TitleAndFlag, b \in RepoBounds :
          Call([op |-> "upsert_conversation", conversation_id |-> id,
                conversation_title |-> tg[1], is_group_chat |-> tg[2],
                first_message_at |-> b[1], last_message_at |-> b[2]])

CallUpsertMessage ==
    /\ clock <= MaxOps
    /\ \E id \in RepoMessageIds, c \in DbIds, x \in ContentAndTime :
          Call([op |-> "upsert_message", message_id |-> id, conversation_db_id |-> c,
                sender_db_id |-> 1, content |-> x[1], sent_at |-> x[2]])

CallUpsertConversationParticipant ==
    /\ clock <= MaxOps
    /\ \E c \in DbIds, b \in JoinedLeft :
          Call([op |-> "upsert_conversation_participant", conversation_db_id |-> c,
                participant_db_id |-> 1, joined_at |-> b[1], left_at |-> b[2]])

CallTrackMessageIngestion ==
    /\ clock <= MaxOps
    /\ \E m \in DbIds :
          Call([op |-> "track_message_ingestion", message_db_id |-> m,
                ingestion_run_db_id |-> 1, source_raw_hash |-> "h1"])

RepoNext ==
    \/ CallUpsertParticipant
    \/ CallUpsertConversation
    \/ CallUpsertMessage
    \/ CallUpsertConversationParticipant
    \/ CallTrackMessageIngestion

SpecRepo == RepoInit /\ [][RepoNext]_vars

\* C3: every repository write is idempotent.  In every state reached by a
\* repository call, making the same call again with identical arguments (at a
\* later time) leaves every table unchanged: same rows, same columns, same
\* updated_at markers.
C3_SecondCallIsNoOp ==
    last_call.op # "none" => Replay(tx, clock, last_call) = tx

\* C3 witness: an upsert_message that rewrote an existing row (inserted at
\* time 1, updated at time 2) has just returned.
C3_Witness ==
    /\ last_call.op = "upsert_message"
    /\ clock = 3
    /\ Len(tx.messages) = 1
    /\ tx.messages[1].updated_at = 2
    /\ tx.participants = <<>>
    /\ tx.conversation_participants = <<>>
    /\ tx.message_ingestion_tracking = <<>>

\* the columns of a participant that upsert_participant may rewrite
ParticipantFields == {"full_name", "profile_url", "email", "headline"}

\* C25: no repository call removes a participant row or changes its
\* linkedin_id; upsert_participant on an existing linkedin_id leaves a field
\* as stored when its argument is None or empty, and stores the argument
\* when it is non-empty, so a non-empty stored field never becomes empty.
C25_RicherDataWins ==
    [][\A i \in DOMAIN tx.participants :
          /\ i \in DOMAIN tx'.participants
          /\ tx'.participants[i].linkedin_id = tx.participants[i].linkedin_id
          /\ \A f \in ParticipantFields :
                /\ Truthy(tx.participants[i][f]) => Truthy(tx'.participants[i][f])
                /\ tx'.participants[i][f] =
                      IF /\ last_call'.op = "upsert_participant"
                         /\ last_call'.linkedin_id = tx.participants[i].linkedin_id
                         /\ Truthy(last_call'[f])
                      THEN last_call'[f]
                      ELSE tx.participants[i][f]]_vars

\* C25 witness: p1 was stored with url u1, email e1 and headline h1, and a
\* second upsert with an empty url, email e2 and an empty headline has kept
\* u1 and h1 and taken e2.
C25_Witness ==
    /\ last_call.op = "upsert_participant"
    /\ last_call.profile_url = ""
    /\ last_call.email = "e2"
    /\ Len(tx.participants) = 1
    /\ tx.participants[1].linkedin_id = last_call.linkedin_id
    /\ tx.participants[1].profile_url = "u1"
    /\ tx.participants[1].email = "e2"
    /\ tx.participants[1].headline = "h1"
    /\ tx.participants[1].updated_at = 2

\* C4: after any sequence of upserts there is exactly one row per distinct
\* linkedin_id, conversation_id and message_id ever upserted, and no other row.
C4_OneRowPerKey ==
    /\ \A k \in calls.participants :
          Cardinality({i \in DOMAIN tx.participants : tx.participants[i].linkedin_id = k}) = 1
    /\ \A k \in calls.conversations :
          Cardinality({i \in DOMAIN tx.conversations : tx.conversations[i].conversation_id = k}) = 1
    /\ \A k \in calls.messages :
          Cardinality({i \in DOMAIN tx.messages : tx.messages[i].message_id = k}) = 1
    /\ Len(tx.participants) = Cardinality(calls.participants)
    /\ Len(tx.conversations) = Cardinality(calls.conversations)
    /\ Len(tx.messages) = Cardinality(calls.messages)

\* C4 witness: the same linkedin_id was upserted twice with different data
\* (row created at time 1, rewritten at time 2) and is still one row.
C4_Witness ==
    /\ last_call.op = "upsert_participant"
    /\ clock = 3
    /\ Len(tx.participants) = 1
    /\ tx.participants[1].updated_at = 2
    /\ tx.conversations = <<>>
    /\ tx.messages = <<>>
    /\ tx.conversation_participants = <<>>
    /\ tx.message_ingestion_tracking = <<>>

(***************************************************************************)
(* SpecWiden: conversation timestamp bounds.  Two conversations exist      *)
(* with empty bounds (as upsert_conversation creates them when no          *)
(* timestamps are given); then at most MaxCalls calls of upsert_message    *)
(* (new messages and corrections of stored ones) and upsert_conversation.  *)
(* history is the sequence of calls made.                                  *)
(***************************************************************************)

MessageIds == {"m1", "m2", "m3"}

WidenStart ==
    upsert_conversation(
        upsert_conversation(EmptyDb, 0, "c1", NONE, FALSE, NoTime, NoTime),
        0, "c2", NONE, FALSE, NoTime, NoTime)

WidenInit ==
    /\ db = EmptyDb
    /\ tx = WidenStart
    /\ clock = 1
    /\ last_call = NoCall
    /\ calls = NoKeys
    /\ service_stats = ZeroStats
    /\ hash_seed = <<>>
    /\ incoming = {}
    /\ raw = <<>>
    /\ normalized = <<>>
    /\ run = <<>>
    /\ history = <<>>
    /\ current_run_id = NONE
    /\ last_run_status = NoStatus
    /\ tasks = {}
    /\ threads = {}
    /\ next_id = 1

WidenCall(c) ==
    /\ tx' = Replay(tx, clock, c)
    /\ last_call' = c
    /\ history' = Append(history, c)
    /\ clock' = clock + 1
    /\ UNCHANGED <<db, raw, service_stats, hash_seed, incoming, normalized, run, calls,
                   current_run_id, last_run_status, tasks, threads, next_id>>

WidenUpsertMessage ==
    /\ clock <= MaxCalls
    /\ \E id \in MessageIds, c \in DbIds, t \in Times :
          WidenCall([op |-> "upsert_message", message_id |-> id,
                     conversation_db_id |-> c, sender_db_id |-> 1,
                     content |-> "hi", sent_at |-> t])

WidenUpsertConversation ==
    /\ clock <= MaxCalls
    /\ \E id \in ConversationIds, t \in OptTimes :
          WidenCall([op |-> "upsert_conversation", conversation_id |-> id,
                     conversation_title |-> NONE, is_group_chat |-> FALSE,
                     first_message_at |-> t, last_message_at |-> t])

WidenNext ==
    \/ WidenUpsertMessage
    \/ WidenUpsertConversation

SpecWiden == WidenInit /\ [][WidenNext]_vars

\* The calls so far are upsert_message calls of pairwise distinct (hence new)
\* messages, all into conversation c.
OnlyNewMessagesInto(c) ==
    /\ history # <<>>
    /\ \A i \in DOMAIN history :
          /\ history[i].op = "upsert_message"
          /\ history[i].conversation_db_id = c
          /\ \A j \in 1..(i - 1) : history[i].message_id # history[j].message_id

SentAts == {history[i].sent_at : i \in DOMAIN history}

\* C5: new messages upserted, in any order, into a conversation whose bounds
\* start empty leave first_message_at at the minimum and last_message_at at
\* the maximum of their sent_at values.
C5_BoundsAreMinMax ==
    \A c \in DbIds :
        OnlyNewMessagesInto(c) =>
            /\ tx.conversations[c].first_message_at # NoTime
            /\ \A t \in SentAts : tx.conversations[c].first_message_at <= t
            /\ tx.conversations[c].first_message_at \in SentAts
            /\ \A t \in SentAts : tx.conversations[c].last_message_at >= t
            /\ tx.conversations[c].last_message_at \in SentAts

\* C5 witness: three new messages with sent_at 2, 1, 3, in that order, went
\* into conversation 1.
C5_Witness ==
    /\ OnlyNewMessagesInto(1)
    /\ Len(history) = 3
    /\ history[1].sent_at = 2
    /\ history[2].sent_at = 1
    /\ history[3].sent_at = 3
    /\ tx.conversations[1].first_message_at = 1
    /\ tx.conversations[1].last_message_at = 3

\* C23: across upsert_conversation and upsert_message calls a stored
\* conversation keeps its row, a bound that is set stays set,
\* first_message_at never increases and last_message_at never decreases.
C23_BoundsOnlyWiden ==
    [][\A c \in DOMAIN tx.conversations :
          /\ c \in DOMAIN tx'.conversations
          /\ tx.conversations[c].first_message_at # NoTime =>
                /\ tx'.conversations[c].first_message_at # NoTime
                /\ tx'.conversations[c].first_message_at
                      <= tx.conversations[c].first_message_at
          /\ tx.conversations[c].last_message_at # NoTime =>
                /\ tx'.conversations[c].last_message_at # NoTime
                /\ tx'.conversations[c].last_message_at
                      >= tx.conversations[c].last_message_at]_vars

\* C23 witness: conversation 1 had bounds 2..2, and a later call with an
\* earlier and one with a later timestamp have widened them to 1..3.
C23_Witness ==
    /\ Len(history) = 3
    /\ history[1].op = "upsert_conversation"
    /\ history[1].conversation_id = "c1"
    /\ history[1].first_message_at = 2
    /\ history[2].op = "upsert_message"
    /\ history[2].conversation_db_id = 1
    /\ history[2].sent_at = 1
    /\ history[3].op = "upsert_conversation"
    /\ history[3].conversation_id = "c1"
    /\ history[3].first_message_at = 3
    /\ tx.conversations[1].first_message_at = 1
    /\ tx.conversations[1].last_message_at = 3

\* C6 (the claim as stated): after any sequence of upsert_message calls,
\* corrections included, every stored message lies within the bounds of the
\* conversation it is linked to.
C6_BoundsCoverMessages ==
    \A i \in DOMAIN tx.messages :
        LET m == tx.messages[i] IN
        m.conversation_id \in DOMAIN tx.conversations =>
            /\ tx.conversations[m.conversation_id].first_message_at # NoTime
            /\ tx.conversations[m.conversation_id].first_message_at <= m.sent_at
            /\ m.sent_at <= tx.conversations[m.conversation_id].last_message_at

(***************************************************************************)
(* Normalizer (app/services/normalize.py).                                 *)
(*                                                                         *)
(* Strings are tokens; the cleaning functions are given by their values    *)
(* on the tokens the model draws.  A timestamp field holds NoTime (None),  *)
(* a datetime t in Times, or a str: the ISO string of t is encoded as -t   *)
(* and a string no date format matches as BadDate.                         *)
(***************************************************************************)

\* A date string that no entry of date_formats matches.
BadDate == -99

IsStr(v) == v < 0

\* str(value).strip()
strip(v) ==
    CASE v = " p1 " -> "p1"
      [] v = " c1 " -> "c1"
      [] v = " "    -> ""
      [] OTHER      -> v

\* str(x or '').strip() for an identifier field
id_string(v) == IF Truthy(v) THEN strip(v) ELSE ""

\* NormalizeService._clean_name: collapse whitespace, drop characters outside
\* [\w\s\-'.], title-case, strip leading and trailing periods; None if
\* nothing is left.
_clean_name(name) ==
    IF ~Truthy(name) THEN NONE
    ELSE CASE name = "ann"  -> "Ann"
           [] name = "bob " -> "Bob"
           [] name = "  john   mcdonald.. " -> "John Mcdonald"
           [] name = "..."  -> NONE
           [] name = "cy@x.io" -> "Cyx.Io"
           [] name = " "    -> NONE
           [] OTHER         -> name

\* NormalizeService._clean_email: trim, lower-case, keep only local@domain.tld
_clean_email(email) ==
    IF ~Truthy(email) THEN NONE
    ELSE CASE email = "Foo@Bar.COM"  -> "foo@bar.com"
           [] email = "not-an-email" -> NONE
           [] OTHER                  -> email

\* NormalizeService._clean_text: trim and collapse whitespace; None if empty.
_clean_text(text) ==
    IF ~Truthy(text) THEN NONE
    ELSE CASE text = " T1 " -> "T1"
           [] text = " "    -> NONE
           [] OTHER         -> text

\* NormalizeService._parse_date: None for None or blank, the ISO string of a
\* date that matches a format, the value itself otherwise.
_parse_date(value) ==
    IF value = NoTime THEN NoTime
    ELSE IF value \in Nat THEN 0 - value
    ELSE value

\* NormalizeService._parse_date_to_datetime: the datetime of a date that
\* matches a format, None otherwise.
_parse_date_to_datetime(value) ==
    IF value \in Nat /\ value # NoTime THEN value ELSE NoTime

\* Python `a or b` on optional strings.
Or(a, b) == IF Truthy(a) THEN a ELSE b

\* dict insertion: a new key is appended, an existing key keeps its place.
Put(list, i, rec) == IF i = 0 THEN Append(list, rec) ELSE [list EXCEPT ![i] = rec]


\* ---- participants ----

\* One iteration of the loop of normalize_participants: acc = [map, stats].
participant_step(acc, raw_p) ==
    LET linkedin_id == id_string(raw_p.linkedin_id)
        full_name   == raw_p.full_name
        skip == [acc EXCEPT !.stats.validation_errors = @ + 1,
                            !.stats.participants_skipped = @ + 1]
    IN
    IF ~Truthy(linkedin_id) THEN skip
    ELSE IF ~Truthy(full_name) THEN skip
    ELSE
      LET fresh == [linkedin_id |-> linkedin_id,
                    full_name   |-> _clean_name(full_name),
                    profile_url |-> NONE,
                    email       |-> _clean_email(raw_p.email),
                    headline    |-> NONE]
          i == First({ix \in DOMAIN acc.map : acc.map[ix].linkedin_id = linkedin_id})
          merged == IF i = 0 THEN fresh
                    ELSE [linkedin_id |-> linkedin_id,
                          full_name   |-> Or(fresh.full_name, acc.map[i].full_name),
                          profile_url |-> Or(fresh.profile_url, acc.map[i].profile_url),
                          email       |-> Or(fresh.email, acc.map[i].email),
                          headline    |-> Or(fresh.headline, acc.map[i].headline)]
      IN [map |-> Put(acc.map, i, merged),
          stats |-> [acc.stats EXCEPT !.participants_processed = @ + 1]]

RECURSIVE participants_loop(_, _, _)
participants_loop(raw_records, n, acc) ==
    IF n > Len(raw_records) THEN acc
    ELSE participants_loop(raw_records, n + 1, participant_step(acc, raw_records[n]))

\* NormalizeService.normalize_participants: [map |-> the list returned, stats]
normalize_participants(raw_records, stats) ==
    participants_loop(raw_records, 1, [map |-> <<>>, stats |-> stats])

\* ---- conversations ----

\* participant ids of a raw conversation: the entries of the list that are
\* truthy, each stripped.
participant_id_list(ids) ==
    {strip(ids[k]) : k \in {j \in DOMAIN ids : Truthy(ids[j])}}

\* list(set(ids)): the elements of the set in the order the hash table is
\* iterated in, which depends on the process's string hash seed and is given
\* here as a list hash_order of the strings
list_set(ids, hash_order) ==
    SelectSeq(hash_order, LAMBDA x : x \in ids)

\* set(l) of a list l
set_of(l) == {l[k] : k \in DOMAIN l}

\* the orders in which the strings of ids can be iterated
IterationOrders(ids) ==
    {o \in [1..Cardinality(ids) -> ids] : \A i, j \in 1..Cardinality(ids) : o[i] = o[j] => i = j}

\* Mutant of conversation_step: a merged record keeps the group flag computed
\* from the last raw record alone.
conversation_step_flag_not_recomputed(acc, raw_c, hash_order) ==
    LET conversation_id == id_string(raw_c.conversation_id)
        participant_ids == participant_id_list(raw_c.participant_ids)
        skip == [acc EXCEPT !.stats.validation_errors = @ + 1,
                            !.stats.conversations_skipped = @ + 1]
    IN
    IF ~Truthy(conversation_id) THEN skip
    ELSE IF participant_ids = {} THEN skip
    ELSE
      LET title == _clean_text(raw_c.conversation_title)
          created_at == _parse_date(raw_c.created_at)
          fresh == [conversation_id |-> conversation_id,
                    conversation_title |-> title,
                    is_group_chat |-> Cardinality(participant_ids) > 2,
                    participant_linkedin_ids |-> list_set(participant_ids, hash_order),
                    first_message_at |-> created_at,
                    last_message_at |-> _parse_date(raw_c.last_message_at)]
          i == First({ix \in DOMAIN acc.map :
                       /\ acc.map[ix].conversation_id = conversation_id})
          merged == IF i = 0 THEN fresh
                    ELSE [fresh EXCEPT
                            !.participant_linkedin_ids =
                                list_set(set_of(acc.map[i].participant_linkedin_ids)
                                            \cup participant_ids, hash_order),
                            !.conversation_title = Or(title, acc.map[i].conversation_title)]
      IN [map |-> Put(acc.map, i, merged),
          stats |-> [acc.stats EXCEPT !.conversations_processed = @ + 1]]

\* One iteration of the loop of normalize_conversations.
conversation_step(acc, raw_c, hash_order) ==
    LET conversation_id == id_string(raw_c.conversation_id)
        participant_ids == participant_id_list(raw_c.participant_ids)
        skip == [acc EXCEPT !.stats.validation_errors = @ + 1,
                            !.stats.conversations_skipped = @ + 1]
    IN
    IF ~Truthy(conversation_id) THEN skip
    ELSE IF participant_ids = {} THEN skip
    ELSE
      LET title == _clean_text(raw_c.conversation_title)
          created_at == _parse_date(raw_c.created_at)
          fresh == [conversation_id |-> conversation_id,
                    conversation_title |-> title,
                    is_group_chat |-> Cardinality(participant_ids) > 2,
                    participant_linkedin_ids |-> list_set(participant_ids, hash_order),
                    first_message_at |-> created_at,
                    last_message_at |-> _parse_date(raw_c.last_message_at)]
          i == First({ix \in DOMAIN acc.map :
                       /\ acc.map[ix].conversation_id = conversation_id})
          merged == IF i = 0 THEN fresh
                    ELSE LET all_participants ==
                                list_set(set_of(acc.map[i].participant_linkedin_ids)
                                            \cup participant_ids, hash_order)
                         IN [fresh EXCEPT
                               !.participant_linkedin_ids = all_participants,
                               !.is_group_chat = Len(all_participants) > 2,
                               !.conversation_title = Or(title, acc.map[i].conversation_title)]
      IN [map |-> Put(acc.map, i, merged),
          stats |-> [acc.stats EXCEPT !.conversations_processed = @ + 1]]

\* hash_orders[n] is the iteration order of the sets built while the n-th raw
\* record is handled
RECURSIVE conversations_loop(_, _, _, _)
conversations_loop(raw_records, n, acc, hash_orders) ==
    IF n > Len(raw_records) THEN acc
    ELSE conversations_loop(raw_records, n + 1,
            conversation_step(acc, raw_records[n], hash_orders[n]), hash_orders)

\* NormalizeService.normalize_conversations
normalize_conversations(raw_records, stats, hash_orders) ==
    conversations_loop(raw_records, 1, [map |-> <<>>, stats |-> stats], hash_orders)

\* the iteration orders normalize_conversations can meet on raw_records: one
\* order of the participant ids per record
HashOrders(raw_records) ==
    [DOMAIN raw_records ->
        IterationOrders(UNION {participant_id_list(raw_records[k].participant_ids) :
                                k \in DOMAIN raw_records})]

\* ---- messages ----

\* NormalizeService._clean_message_content: drop control characters, collapse
\* runs of newlines and spaces, trim; None if empty.
_clean_message_content(content) ==
    IF ~Truthy(content) THEN NONE
    ELSE CASE content = "hi  there" -> "hi there"
           [] content = " "         -> NONE
           [] OTHER                 -> content

\* a Python list used as a condition: empty (or None) is falsy
NonEmpty(list) == list # <<>>

\* One iteration of the loop of normalize_messages.  acc = [map, stats,
\* timestamps]; timestamps is conversation_timestamps as a set of
\* <<conversation_id, datetime>> pairs.  The validation sets exist only when
\* the list they are built from is non-empty.
message_step(acc, raw_m, normalized_participants, normalized_conversations) ==
    LET message_id      == id_string(raw_m.message_id)
        conversation_id == id_string(raw_m.conversation_id)
        sender_id       == id_string(raw_m.sender_id)
        valid_participant_ids ==
            {normalized_participants[k].linkedin_id : k \in DOMAIN normalized_participants}
        valid_conversation_ids ==
            {normalized_conversations[k].conversation_id : k \in DOMAIN normalized_conversations}
        parsed_sent_at  == _parse_date_to_datetime(raw_m.sent_at)
        skip == [acc EXCEPT !.stats.validation_errors = @ + 1,
                            !.stats.messages_skipped = @ + 1]
    IN
    IF ~Truthy(message_id) THEN skip
    ELSE IF ~Truthy(conversation_id) THEN skip
    ELSE IF NonEmpty(normalized_conversations)
            /\ conversation_id \notin valid_conversation_ids THEN skip
    ELSE IF ~Truthy(sender_id) THEN skip
    ELSE IF NonEmpty(normalized_participants)
            /\ sender_id \notin valid_participant_ids THEN skip
    ELSE IF parsed_sent_at = NoTime THEN skip
    ELSE
      LET fresh == [message_id |-> message_id,
                    conversation_id |-> conversation_id,
                    sender_linkedin_id |-> sender_id,
                    content |-> _clean_message_content(raw_m.content),
                    sent_at |-> parsed_sent_at]
          tracked == IF NonEmpty(normalized_conversations)
                     THEN acc.timestamps \cup {<<conversation_id, parsed_sent_at>>}
                     ELSE acc.timestamps
          i == First({ix \in DOMAIN acc.map : acc.map[ix].message_id = message_id})
      IN IF i # 0
         THEN [acc EXCEPT !.timestamps = tracked]
         ELSE [map |-> Append(acc.map, fresh),
               stats |-> [acc.stats EXCEPT !.messages_processed = @ + 1],
               timestamps |-> tracked]

RECURSIVE messages_loop(_, _, _, _, _)
messages_loop(raw_records, n, acc, normalized_participants, normalized_conversations) ==
    IF n > Len(raw_records) THEN acc
    ELSE messages_loop(raw_records, n + 1,
            message_step(acc, raw_records[n], normalized_participants,
                         normalized_conversations),
            normalized_participants, normalized_conversations)

SetMin(S) == CHOOSE x \in S : \A y \in S : x <= y
SetMax(S) == CHOOSE x \in S : \A y \in S : x >= y

\* NormalizeService._update_conversation_timestamps: the conversations list
\* after the in-place update.
_update_conversation_timestamps(conversations, timestamps_map) ==
    [k \in DOMAIN conversations |->
        LET timestamps == {p[2] : p \in {q \in timestamps_map :
                                           q[1] = conversations[k].conversation_id}}
        IN IF timestamps # {}
           THEN [conversations[k] EXCEPT !.first_message_at = SetMin(timestamps),
                                         !.last_message_at = SetMax(timestamps)]
           ELSE conversations[k]]

\* NormalizeService.normalize_messages: [messages |-> the list returned,
\* conversations |-> normalized_conversations after the call, stats].
normalize_messages(raw_records, normalized_participants, normalized_conversations, stats) ==
    LET acc == messages_loop(raw_records, 1,
                   [map |-> <<>>, stats |-> stats, timestamps |-> {}],
                   normalized_participants, normalized_conversations)
    IN [messages |-> acc.map,
        conversations |->
            IF NonEmpty(normalized_conversations) /\ acc.timestamps # {}
            THEN _update_conversation_timestamps(normalized_conversations, acc.timestamps)
            ELSE normalized_conversations,
        stats |-> acc.stats]

\* ---- junction ----

\* the loop of _build_conversation_participants over the conversations: a
\* row per participant id of the conversation's list, in list order, that is
\* a valid participant
RECURSIVE junction_loop(_, _, _)
junction_loop(conversations, n, valid_participant_ids) ==
    IF n > Len(conversations) THEN <<>>
    ELSE LET conv == conversations[n]
             ids  == SelectSeq(conv.participant_linkedin_ids,
                               LAMBDA participant_id : participant_id \in valid_participant_ids)
         IN [k \in DOMAIN ids |->
                [conversation_id |-> conv.conversation_id,
                 participant_linkedin_id |-> ids[k],
                 joined_at |-> conv.first_message_at,
                 left_at |-> NoTime]]
            \o junction_loop(conversations, n + 1, valid_participant_ids)

\* NormalizeService._build_conversation_participants
_build_conversation_participants(normalized_conversations, normalized_participants) ==
    junction_loop(normalized_conversations, 1,
        {normalized_participants[k].linkedin_id : k \in DOMAIN normalized_participants})

\* ---- normalize_all ----

\* raw_data.get(table, [])
Table(raw_data, name) ==
    IF name \in raw_data.keys
    THEN CASE name = "participants"  -> raw_data.participants
           [] name = "conversations" -> raw_data.conversations
           [] name = "messages"      -> raw_data.messages
           [] OTHER                  -> <<>>
    ELSE <<>>

\* NormalizeService._normalize_connector_format
_normalize_connector_format(raw_data, hash_orders) ==
    LET p == normalize_participants(Table(raw_data, "participants"), ZeroStats)
        c == normalize_conversations(Table(raw_data, "conversations"), p.stats,
                                     hash_orders)
        m == normalize_messages(Table(raw_data, "messages"), p.map, c.map, c.stats)
    IN [format |-> "connector",
        participants |-> p.map,
        conversations |-> m.conversations,
        messages |-> m.messages,
        conversation_participants |->
            _build_conversation_participants(m.conversations, p.map),
        stats |-> m.stats]

\* NormalizeService._normalize_table_format: every table present is
\* normalized on its own; messages without validation sets.  The result has
\* no junction table and no stats (read back with .get(key, [])).
_normalize_table_format(raw_data, hash_orders) ==
    [format |-> "table",
     participants |->
        normalize_participants(Table(raw_data, "participants"), ZeroStats).map,
     conversations |->
        normalize_conversations(Table(raw_data, "conversations"), ZeroStats,
                                hash_orders).map,
     messages |->
        normalize_messages(Table(raw_data, "messages"), <<>>, <<>>, ZeroStats).messages,
     conversation_participants |-> <<>>,
     stats |-> ZeroStats]

\* NormalizeService.normalize_all
normalize_all(raw_data, hash_orders) ==
    LET is_connector_format ==
            \/ "metadata" \in raw_data.keys
            \/ {"participants", "conversations", "messages"} \subseteq raw_data.keys
    IN IF is_connector_format
       THEN _normalize_connector_format(raw_data, hash_orders)
       ELSE _normalize_table_format(raw_data, hash_orders)

(***************************************************************************)
(* Repository: ingestion runs                                              *)
(***************************************************************************)

\* the stats argument of update_ingestion_run left at its default (None)
NoStats == <<>>

\* DatabaseRepository.create_ingestion_run
create_ingestion_run(s, run_id, source_zip_path, source_zip_hash, started_at) ==
    [s EXCEPT !.ingestion_runs = Append(@,
        [run_id |-> run_id,
         source_zip_path |-> source_zip_path,
         source_zip_hash |-> source_zip_hash,
         started_at |-> started_at,
         completed_at |-> NoTime,
         status |-> "running",
         error_message |-> NONE,
         total_messages_found |-> 0,
         total_messages_inserted |-> 0,
         total_conversations_found |-> 0,
         total_conversations_inserted |-> 0,
         total_participants_found |-> 0,
         total_participants_inserted |-> 0])]

\* The IngestionRun object create_ingestion_run returns: its primary key.
id_of_ingestion_run(s, run_id) ==
    First({ix \in DOMAIN s.ingestion_runs : s.ingestion_runs[ix].run_id = run_id})

\* DatabaseRepository.update_ingestion_run
update_ingestion_run(s, run_db_id, status, completed_at, error_message, stats) ==
    IF run_db_id \notin DOMAIN s.ingestion_runs THEN s
    ELSE LET r  == s.ingestion_runs[run_db_id]
             r1 == [r EXCEPT !.status = status,
                             !.completed_at = completed_at,
                             !.error_message = error_message]
         IN [s EXCEPT !.ingestion_runs[run_db_id] =
               IF stats = NoStats THEN r1
               ELSE [r1 EXCEPT
                       !.total_messages_found = stats.messages_found,
                       !.total_messages_inserted = stats.messages_inserted,
                       !.total_conversations_found = stats.conversations_found,
                       !.total_conversations_inserted = stats.conversations_inserted,
                       !.total_participants_found = stats.participants_found,
                       !.total_participants_inserted = stats.participants_inserted]]

\* DatabaseRepository.check_zip_already_ingested
check_zip_already_ingested(s, zip_hash) ==
    \E i \in DOMAIN s.ingestion_runs :
        /\ s.ingestion_runs[i].source_zip_hash = zip_hash
        /\ s.ingestion_runs[i].status = "success"

(***************************************************************************)
(* Insertion stage (IngestionJob._insert_normalized_data).                 *)
(*                                                                         *)
(* A repository call either returns ("ok"), raises in Python before the    *)
(* flush ("app_error": the session stays usable and keeps what was flushed *)
(* or assigned so far), or raises from session.flush() ("db_error": the    *)
(* flush rolls the database transaction back and the session refuses any   *)
(* further statement until rollback() is called).                          *)
(*  - inserting a participant whose full_name is None violates NOT NULL;   *)
(*  - a str bound for a DateTime column is rejected when the row is        *)
(*    flushed;                                                             *)
(*  - comparing a str with a stored datetime raises TypeError.             *)
(***************************************************************************)

\* dict.get(key): 0 stands for None
Get(map, k) == IF k \in DOMAIN map THEN map[k] ELSE 0

NoCounts ==
    [participants |-> 0, conversations |-> 0, messages |-> 0,
     conversation_participants |-> 0]

\* Mutant of participant_insert_step: only a newly created row is counted.
participant_insert_step_counts_new_rows(acc, now, p) ==
    IF acc.outcome # "ok" THEN acc
    ELSE IF id_of_participant(acc.s, p.linkedin_id) = 0 /\ p.full_name = NONE
    THEN [acc EXCEPT !.outcome = "db_error", !.error = "IntegrityError"]
    ELSE LET s2 == upsert_participant(acc.s, now, p.linkedin_id, p.full_name,
                                      p.profile_url, p.email, p.headline)
         IN [acc EXCEPT
               !.s = s2,
               !.participant_map =
                   (p.linkedin_id :> id_of_participant(s2, p.linkedin_id)) @@ @,
               !.inserted_counts.participants =
                   IF id_of_participant(acc.s, p.linkedin_id) = 0 THEN @ + 1 ELSE @]

\* jobs.py, step 1 of _insert_normalized_data, one participant
participant_insert_step(acc, now, p) ==
    IF acc.outcome # "ok" THEN acc
    ELSE IF id_of_participant(acc.s, p.linkedin_id) = 0 /\ p.full_name = NONE
    THEN [acc EXCEPT !.outcome = "db_error", !.error = "IntegrityError"]
    ELSE LET s2 == upsert_participant(acc.s, now, p.linkedin_id, p.full_name,
                                      p.profile_url, p.email, p.headline)
         IN [acc EXCEPT
               !.s = s2,
               !.participant_map =
                   (p.linkedin_id :> id_of_participant(s2, p.linkedin_id)) @@ @,
               !.inserted_counts.participants = @ + 1]

\* upsert_conversation on an existing row when a comparison raises TypeError:
\* the attributes assigned before the raise stay pending on the object and
\* are written (with onupdate's updated_at) by the next flush of the session.
upsert_conversation_interrupted(s, now, i, conversation_title, is_group_chat, first_message_at) ==
    LET e  == s.conversations[i]
        c1 == Truthy(conversation_title) /\ e.conversation_title # conversation_title
        c2 == e.is_group_chat # is_group_chat
        c3 == /\ first_message_at # NoTime
              /\ ~IsStr(first_message_at)
              /\ (e.first_message_at = NoTime \/ first_message_at < e.first_message_at)
    IN [s EXCEPT !.conversations[i] =
          [e EXCEPT
             !.conversation_title = IF c1 THEN conversation_title ELSE @,
             !.is_group_chat      = IF c2 THEN is_group_chat ELSE @,
             !.first_message_at   = IF c3 THEN first_message_at ELSE @,
             !.updated_at         = IF c1 \/ c2 \/ c3 THEN now ELSE @]]

\* jobs.py, step 2 of _insert_normalized_data, one conversation
conversation_insert_step(acc, now, c) ==
    IF acc.outcome # "ok" THEN acc
    ELSE
    LET i  == id_of_conversation(acc.s, c.conversation_id)
        f  == c.first_message_at
        l  == c.last_message_at
    IN
    IF i = 0 /\ (IsStr(f) \/ IsStr(l))
    THEN [acc EXCEPT !.outcome = "db_error", !.error = "StatementError"]
    ELSE IF i # 0 /\ IsStr(f) /\ acc.s.conversations[i].first_message_at # NoTime
    THEN [acc EXCEPT
            !.outcome = "app_error", !.error = "TypeError",
            !.flushed = acc.s,
            !.s = upsert_conversation_interrupted(acc.s, now, i,
                      c.conversation_title, c.is_group_chat, NoTime)]
    ELSE IF i # 0 /\ IsStr(l) /\ acc.s.conversations[i].last_message_at # NoTime
    THEN [acc EXCEPT
            !.outcome = "app_error", !.error = "TypeError",
            !.flushed = acc.s,
            !.poisoned = IsStr(f),
            !.s = upsert_conversation_interrupted(acc.s, now, i,
                      c.conversation_title, c.is_group_chat, f)]
    ELSE IF i # 0 /\ (IsStr(f) \/ IsStr(l))
    THEN [acc EXCEPT !.outcome = "db_error", !.error = "StatementError"]
    ELSE LET s2 == upsert_conversation(acc.s, now, c.conversation_id,
                        c.conversation_title, c.is_group_chat, f, l)
         IN [acc EXCEPT
               !.s = s2,
               !.conversation_map =
                   (c.conversation_id :> id_of_conversation(s2, c.conversation_id)) @@ @,
               !.inserted_counts.conversations = @ + 1]

\* jobs.py, step 3 of _insert_normalized_data, one junction record
junction_insert_step(acc, now, j) ==
    IF acc.outcome # "ok" THEN acc
    ELSE
    LET conv_db_id        == Get(acc.conversation_map, j.conversation_id)
        participant_db_id == Get(acc.participant_map, j.participant_linkedin_id)
        i == First({ix \in DOMAIN acc.s.conversation_participants :
                     /\ acc.s.conversation_participants[ix].conversation_id = conv_db_id
                     /\ acc.s.conversation_participants[ix].participant_id = participant_db_id})
    IN
    IF conv_db_id = 0 \/ participant_db_id = 0 THEN acc
    ELSE IF IsStr(j.joined_at) /\ i # 0
            /\ acc.s.conversation_participants[i].joined_at # NoTime
    THEN [acc EXCEPT !.outcome = "app_error", !.error = "TypeError",
                     !.flushed = acc.s]
    ELSE IF IsStr(j.joined_at)
    THEN [acc EXCEPT !.outcome = "db_error", !.error = "StatementError"]
    ELSE [acc EXCEPT
            !.s = upsert_conversation_participant(acc.s, conv_db_id,
                      participant_db_id, j.joined_at, j.left_at),
            !.inserted_counts.conversation_participants = @ + 1]

\* Mutant of message_insert_step: the two `continue` guards are gone, a
\* message is written with whatever the maps return.
message_insert_step_unguarded(acc, now, msg, ingestion_run_db_id) ==
    IF acc.outcome # "ok" THEN acc
    ELSE
    LET conv_db_id   == Get(acc.conversation_map, msg.conversation_id)
        sender_db_id == Get(acc.participant_map, msg.sender_linkedin_id)
        s2 == upsert_message(acc.s, now, msg.message_id, conv_db_id,
                             sender_db_id, msg.content, msg.sent_at)
        s3 == track_message_ingestion(s2, id_of_message(s2, msg.message_id),
                  ingestion_run_db_id, <<msg.message_id, now>>)
    IN [acc EXCEPT !.s = s3, !.inserted_counts.messages = @ + 1]

\* jobs.py, step 4 of _insert_normalized_data, one message.  The tracking
\* hash is compute_hash(msg_data), which covers the record's created_at.
message_insert_step(acc, now, msg, ingestion_run_db_id) ==
    IF acc.outcome # "ok" THEN acc
    ELSE
    LET conv_db_id   == Get(acc.conversation_map, msg.conversation_id)
        sender_db_id == Get(acc.participant_map, msg.sender_linkedin_id)
    IN
    IF conv_db_id = 0 THEN acc
    ELSE IF sender_db_id = 0 THEN acc
    ELSE LET s2 == upsert_message(acc.s, now, msg.message_id, conv_db_id,
                                  sender_db_id, msg.content, msg.sent_at)
             s3 == track_message_ingestion(s2, id_of_message(s2, msg.message_id),
                       ingestion_run_db_id, <<msg.message_id, now>>)
         IN [acc EXCEPT !.s = s3, !.inserted_counts.messages = @ + 1]

RECURSIVE insert_loop(_, _, _, _, _, _)
insert_loop(acc, now, list, n, table, ingestion_run_db_id) ==
    IF n > Len(list) THEN acc
    ELSE insert_loop(
            CASE table = "participants"  -> participant_insert_step(acc, now, list[n])
              [] table = "conversations" -> conversation_insert_step(acc, now, list[n])
              [] table = "conversation_participants" ->
                                            junction_insert_step(acc, now, list[n])
              [] table = "messages"      ->
                    message_insert_step(acc, now, list[n], ingestion_run_db_id),
            now, list, n + 1, table, ingestion_run_db_id)

\* IngestionJob._insert_normalized_data: participants, conversations,
\* junction links, messages, in that order, on session state s.  In the
\* result, s is the session as the stage leaves it, flushed the session as
\* last flushed, pending the conversation rows with attributes assigned and
\* not flushed since (the stage raised between the assignment and the
\* flush).
_insert_normalized_data(s, now, normalized_data, ingestion_run_db_id) ==
    LET a0 == [s |-> s, flushed |-> s, pending |-> <<>>, outcome |-> "ok",
               error |-> NONE, poisoned |-> FALSE,
               participant_map |-> <<>>, conversation_map |-> <<>>,
               inserted_counts |-> NoCounts]
        a1 == insert_loop(a0, now, normalized_data.participants, 1,
                          "participants", ingestion_run_db_id)
        a2 == insert_loop(a1, now, normalized_data.conversations, 1,
                          "conversations", ingestion_run_db_id)
        a3 == insert_loop(a2, now, normalized_data.conversation_participants, 1,
                          "conversation_participants", ingestion_run_db_id)
        a4 == insert_loop(a3, now, normalized_data.messages, 1,
                          "messages", ingestion_run_db_id)
    IN CHOOSE result \in
          {IF a.outcome # "app_error" THEN [a EXCEPT !.flushed = a.s]
           ELSE [a EXCEPT !.pending =
                   [k \in {i \in DOMAIN a.s.conversations :
                              a.s.conversations[i] # a.flushed.conversations[i]} |->
                       a.s.conversations[k]]] : a \in {a4}} : TRUE

\* str(uuid.uuid4()): the n-th identifier drawn
uuid4(n) == <<"r1", "r2", "r3", "r4", "r5", "r6", "r7", "r8">>[n]

\* Mutant of except_branch: a failure before the run row exists is recorded
\* as a failed run row of its own.
except_branch_always_records(committed, session, outcome, poisoned, run_db_id, now, error) ==
    IF run_db_id = 0
    THEN update_ingestion_run(
             create_ingestion_run(committed, "unknown", NONE, NONE, now),
             Len(committed.ingestion_runs) + 1, "failed", now, error, NoStats)
    ELSE IF outcome = "db_error" \/ poisoned THEN committed
    ELSE update_ingestion_run(session, run_db_id, "failed", now, error, NoStats)

\* The except branch of run_ingestion up to its flush (jobs.py 222-238): the
\* state of the run's session after it, or the committed database when the
\* branch writes nothing.  With a run row, it marks the row failed through
\* the run's own session, which still holds what the failed stage flushed
\* and what it assigned without flushing.  A session whose flush failed, or
\* that holds a pending value the database rejects, raises again inside the
\* branch; that error is logged and only the rollback remains.
except_branch(committed, session, outcome, poisoned, run_db_id, now, error) ==
    IF run_db_id = 0 THEN committed
    ELSE IF outcome = "db_error" \/ poisoned THEN committed
    ELSE update_ingestion_run(session, run_db_id, "failed", now, error, NoStats)

\* The run row and the insertion stage of one run that has the job to
\* itself, with their commits (jobs.py 95-104, 134-146, 222-245): the
\* session as the stage leaves it, and the database as committed when the
\* stage has returned or the except branch has run.
ingest(s, now, run_id, normalized_data) ==
    CHOOSE result \in
       {[outcome |-> res.outcome,
         inserted_counts |-> res.inserted_counts,
         session |-> IF res.outcome = "db_error" THEN s0 ELSE res.s,
         committed |-> IF res.outcome = "ok" THEN res.s
                       ELSE except_branch(s0, res.s, res.outcome, res.poisoned,
                                          id_of_ingestion_run(s0, run_id), now,
                                          res.error)] :
          s0 \in {create_ingestion_run(s, run_id, "a.zip", "h1", now)},
          res \in {_insert_normalized_data(
                      create_ingestion_run(s, run_id, "a.zip", "h1", now), now,
                      normalized_data,
                      id_of_ingestion_run(
                          create_ingestion_run(s, run_id, "a.zip", "h1", now),
                          run_id))}} : TRUE

(***************************************************************************)
(* SpecNorm: normalize_all applied once to a raw table map whose tables    *)
(* are lists of at most MaxRaw distinct records of the catalogs below, and *)
(* the result inserted into the database that the earlier runs on the      *)
(* exports of PriorRaws have filled.                                       *)
(***************************************************************************)

RawParticipants ==
    {[linkedin_id |-> "p1",   full_name |-> "ann",  email |-> "Foo@Bar.COM"],
     [linkedin_id |-> " p1 ", full_name |-> "...",  email |-> NONE],
     [linkedin_id |-> "p2",   full_name |-> " ",    email |-> "not-an-email"],
     [linkedin_id |-> NONE,   full_name |-> "bob ", email |-> NONE]}

RawConversations ==
    {[conversation_id |-> "c1", participant_ids |-> <<"p1", "p2">>,
      conversation_title |-> " T1 ", created_at |-> 2, last_message_at |-> NoTime],
     [conversation_id |-> " c1 ", participant_ids |-> <<"p2", "p3", "">>,
      conversation_title |-> NONE, created_at |-> BadDate, last_message_at |-> 3],
     [conversation_id |-> "c2", participant_ids |-> <<"p1">>,
      conversation_title |-> NONE, created_at |-> NoTime, last_message_at |-> NoTime]}

RawMessages ==
    {[message_id |-> "m1", conversation_id |-> "c1", sender_id |-> "p1",
      content |-> "hi", sent_at |-> 2],
     [message_id |-> "m2", conversation_id |-> "c1", sender_id |-> "p2",
      content |-> "hi  there", sent_at |-> 1],
     [message_id |-> "m1", conversation_id |-> "c1", sender_id |-> "p1",
      content |-> "hi", sent_at |-> 3],
     [message_id |-> "m3", conversation_id |-> "c9", sender_id |-> "p1",
      content |-> NONE, sent_at |-> 1],
     [message_id |-> "m4", conversation_id |-> "c2", sender_id |-> "p9",
      content |-> "hi", sent_at |-> 3],
     [message_id |-> "m5", conversation_id |-> "c1", sender_id |-> "p1",
      content |-> "hi", sent_at |-> BadDate]}

\* lists of at most n distinct elements of S
RECURSIVE ListsOf(_, _)
ListsOf(S, n) ==
    IF n = 0 THEN {<<>>}
    ELSE LET shorter == ListsOf(S, n - 1)
         IN shorter \cup {Append(l, x) : l \in shorter, x \in S}

DistinctListsOf(S, n) ==
    {l \in ListsOf(S, n) : \A i, j \in DOMAIN l : l[i] = l[j] => i = j}

TableNames == {"participants", "conversations", "messages"}

\* keys of the raw map besides the tables that hold records: none, the
\* connector's metadata, or all three tables (then possibly as empty lists)
ExtraKeys == {{}, {"metadata"}, TableNames}

KeysOf(p, c, m, extra) ==
    extra \cup (IF p # <<>> THEN {"participants"} ELSE {})
          \cup (IF c # <<>> THEN {"conversations"} ELSE {})
          \cup (IF m # <<>> THEN {"messages"} ELSE {})

NormInit ==
    /\ \E p \in DistinctListsOf(RawParticipants, MaxRaw),
          c \in DistinctListsOf(RawConversations, MaxRaw),
          m \in DistinctListsOf(RawMessages, MaxRaw),
          extra \in ExtraKeys :
            raw = [keys |-> KeysOf(p, c, m, extra), participants |-> p,
                   conversations |-> c, messages |-> m]
    /\ normalized = <<>>
    /\ db = EmptyDb
    /\ tx = EmptyDb
    /\ clock = 1
    /\ last_call = NoCall
    /\ calls = NoKeys
    /\ service_stats = ZeroStats
    /\ hash_seed = <<>>
    /\ incoming = {}
    /\ run = <<>>
    /\ history = <<>>
    /\ current_run_id = NONE
    /\ last_run_status = NoStatus
    /\ tasks = {}
    /\ threads = {}
    /\ next_id = 1

\* The exports of the runs that precede the observed one, in order: a
\* conversation with a message whose sender is not exported (no participants
\* table: table format), then a one-message conversation with its sender.
PriorRaws ==
    <<[keys |-> {"conversations", "messages"},
       participants |-> <<>>,
       conversations |-> <<[conversation_id |-> "c2", participant_ids |-> <<"p1">>,
                            conversation_title |-> NONE, created_at |-> NoTime,
                            last_message_at |-> NoTime]>>,
       messages |-> <<[message_id |-> "m4", conversation_id |-> "c2", sender_id |-> "p9",
                       content |-> "hi", sent_at |-> 3]>>],
      [keys |-> TableNames,
       participants |-> <<[linkedin_id |-> "p1", full_name |-> "ann",
                           email |-> "Foo@Bar.COM"]>>,
       conversations |-> <<[conversation_id |-> "c1", participant_ids |-> <<"p1", "p2">>,
                            conversation_title |-> " T1 ", created_at |-> 2,
                            last_message_at |-> NoTime]>>,
       messages |-> <<[message_id |-> "m1", conversation_id |-> "c1", sender_id |-> "p1",
                       content |-> "hi", sent_at |-> 2]>>]>>

\* An earlier run, from normalize_all to the commit that follows its
\* insertion stage, on the database the runs before it have left.  history
\* keeps what it normalized and what it counted.
IngestPrior ==
    /\ normalized = <<>>
    /\ run = <<>>
    /\ Len(history) < Len(PriorRaws)
    /\ \E prior \in {PriorRaws[Len(history) + 1]} :
       \E hash_orders \in HashOrders(Table(prior, "conversations")) :
       \E n \in {normalize_all(prior, hash_orders)} :
       \E res \in {ingest(db, clock, uuid4(Len(history) + 1), n)} :
          /\ db' = res.committed
          /\ tx' = res.committed
          /\ history' = Append(history,
                [normalized |-> n, outcome |-> res.outcome,
                 inserted_counts |-> res.inserted_counts])
    /\ clock' = clock + 1
    /\ UNCHANGED <<raw, normalized, service_stats, hash_seed, incoming, run, current_run_id,
                   last_run_status, tasks, threads, next_id, last_call, calls>>

Normalize ==
    /\ normalized = <<>>
    /\ \E hash_orders \in HashOrders(Table(raw, "conversations")) :
         normalized' = normalize_all(raw, hash_orders)
    /\ UNCHANGED <<db, tx, clock, raw, service_stats, hash_seed, incoming, run, history, current_run_id,
                   last_run_status, tasks, threads, next_id, last_call, calls>>

\* The observed run: its run row and its insertion stage on the normalized
\* data, in a fresh session on the database the earlier runs have left.
\* Flushed rows are committed when the stage returns and dropped when it
\* raises from a flush; when it raises otherwise, the except branch commits
\* them with the failed run row.  fresh tells that no run came before,
\* found how many of the normalized messages the database already held.
InsertNormalized ==
    /\ normalized # <<>>
    /\ run = <<>>
    /\ \E res \in {ingest(db, clock, uuid4(Len(history) + 1), normalized)} :
          /\ run' = [outcome |-> res.outcome, inserted_counts |-> res.inserted_counts,
                     fresh |-> history = <<>>,
                     found |-> Cardinality({k \in DOMAIN normalized.messages :
                                  id_of_message(db, normalized.messages[k].message_id) # 0})]
          /\ tx' = res.session
          /\ db' = res.committed
    /\ UNCHANGED <<clock, raw, service_stats, hash_seed, incoming, normalized, history, current_run_id,
                   last_run_status, tasks, threads, next_id, last_call, calls>>

NormNext == IngestPrior \/ Normalize \/ InsertNormalized

SpecNorm == NormInit /\ [][NormNext]_vars

\* C27 (the claim as stated): every participant normalize_all returns has a
\* non-empty identifier and a non-empty name.
C27_ParticipantsHaveIdAndName ==
    normalized # <<>> =>
        \A k \in DOMAIN normalized.participants :
            /\ Truthy(normalized.participants[k].linkedin_id)
            /\ Truthy(normalized.participants[k].full_name)

\* the sent_at values of the messages normalize_all returns for a conversation
SurvivingSentAts(conversation_id) ==
    {normalized.messages[k].sent_at :
        k \in {j \in DOMAIN normalized.messages :
                 normalized.messages[j].conversation_id = conversation_id}}

\* C26 (the claim as stated): where normalize_messages is handed the
\* normalized conversations (connector format), every conversation with at
\* least one surviving message has first_message_at equal to the minimum and
\* last_message_at equal to the maximum sent_at of its surviving messages.
C26_BackfillFromSurvivors ==
    (normalized # <<>> /\ normalized.format = "connector") =>
        \A k \in DOMAIN normalized.conversations :
            LET conv == normalized.conversations[k]
                ts   == SurvivingSentAts(conv.conversation_id)
            IN ts # {} => /\ conv.first_message_at = SetMin(ts)
                          /\ conv.last_message_at = SetMax(ts)

\* C7 (the claim as stated): every message normalize_all returns refers to a
\* normalized conversation and to a normalized participant, also when the
\* normalized conversation set or participant set is empty.
C7_NoDanglingMessage ==
    normalized # <<>> =>
        \A k \in DOMAIN normalized.messages :
            /\ normalized.messages[k].conversation_id
                  \in {normalized.conversations[i].conversation_id : i \in DOMAIN normalized.conversations}
            /\ normalized.messages[k].sender_linkedin_id
                  \in {normalized.participants[i].linkedin_id : i \in DOMAIN normalized.participants}

RowIds(rows) == DOMAIN rows

\* C8: after any sequence of ingestion runs, every stored Message row
\* references a Conversation row and a Participant row that exist, in the
\* session and in the committed database; a normalized message whose
\* conversation or sender was not stored by the insertion stage is not
\* inserted.
C8_MessagesReferenceRows ==
    \A s \in {tx, db} : \A k \in DOMAIN s.messages :
        /\ s.messages[k].conversation_id \in RowIds(s.conversations)
        /\ s.messages[k].sender_id \in RowIds(s.participants)

\* C8 witness: of two earlier runs one stored a conversation and dropped its
\* message, whose sender has no row, and one stored message m1; the observed
\* run then found m1, rewrote its row with a later sent_at and kept every
\* message it was given.
C8_Witness ==
    /\ run # <<>>
    /\ run.outcome = "ok"
    /\ run.found > 0
    /\ run.inserted_counts.messages = Len(normalized.messages)
    /\ \E k \in DOMAIN history :
          /\ history[k].outcome = "ok"
          /\ history[k].inserted_counts.conversations > 0
          /\ history[k].inserted_counts.messages < Len(history[k].normalized.messages)
    /\ \E k \in DOMAIN history : history[k].inserted_counts.messages > 0
    /\ \E i \in DOMAIN db.messages :
          /\ db.messages[i].message_id = "m1"
          /\ db.messages[i].sent_at = 3
          /\ db.messages[i].updated_at = clock

\* C14: in the normalized conversations, merged records included, a
\* conversation is flagged is_group_chat iff its set of distinct participant
\* ids has more than 2 elements.
C14_GroupFlagIffMoreThanTwo ==
    normalized # <<>> =>
        \A k \in DOMAIN normalized.conversations :
            normalized.conversations[k].is_group_chat
                <=> Len(normalized.conversations[k].participant_linkedin_ids) > 2

\* C14 witness: two raw records of two participants each, with the same
\* conversation_id, were merged into one conversation of three, flagged.
C14_Witness ==
    /\ normalized # <<>>
    /\ Len(raw.conversations) = 2
    /\ \A k \in DOMAIN raw.conversations :
          Cardinality(participant_id_list(raw.conversations[k].participant_ids)) = 2
    /\ Len(normalized.conversations) = 1
    /\ Len(normalized.conversations[1].participant_linkedin_ids) = 3
    /\ normalized.conversations[1].is_group_chat

\* C15 (the claim as stated): once the normalized data has been persisted
\* into the empty repository, the repository holds as many participants,
\* conversations and messages as were normalized, and one junction row per
\* normalized conversation-participant pair.
C15_RoundTripCounts ==
    (run # <<>> /\ run.outcome = "ok" /\ run.fresh) =>
        /\ Len(db.participants) = Len(normalized.participants)
        /\ Len(db.conversations) = Len(normalized.conversations)
        /\ Len(db.messages) = Len(normalized.messages)
        /\ Len(db.conversation_participants)
              = Len(normalized.conversation_participants)

\* the junction rows database s holds for the conversation with primary key c
JunctionRowsOf(s, c) ==
    {i \in DOMAIN s.conversation_participants :
        s.conversation_participants[i].conversation_id = c}

\* C29 (the claim as stated): once a run's insertion stage has completed and
\* is committed, every stored conversation is flagged is_group_chat iff it
\* has more than 2 rows in conversation_participants.
C29_GroupFlagMatchesJunction ==
    (run # <<>> /\ run.outcome = "ok") =>
        \A c \in DOMAIN db.conversations :
            db.conversations[c].is_group_chat
                <=> Cardinality(JunctionRowsOf(db, c)) > 2

(***************************************************************************)
(* Connector (app/connectors/data_export.py).  An archive is the set of    *)
(* recognised files in the ZIP and the rows of messages.csv; a row is      *)
(* [FROM, TO, DATE, SUBJECT, CONTENT] after the CSV reader stripped it.    *)
(* Identifiers are counters; participant n is written "p<n>", conversation *)
(* n "c<n>", message n "m<n>" (the normalizer reads them through str()).   *)
(* The records carry the names NormalizeService._get_field resolves the    *)
(* connector's keys to: participant_id -> linkedin_id, name -> full_name,  *)
(* subject -> conversation_title.                                          *)
(***************************************************************************)

ParticipantTokens  == <<"p1", "p2", "p3", "p4">>
ConversationTokens == <<"c1", "c2", "c3", "c4">>
MessageTokens      == <<"m1", "m2", "m3", "m4">>

\* the order sorted() puts the participant strings in
NameOrder == <<"", "...", "Ann", "Bob", "cy@x.io">>

NameRank(name) == CHOOSE i \in DOMAIN NameOrder : NameOrder[i] = name

\* DataExportConnector._extract_participant
_extract_participant(participant_field) ==
    CASE participant_field = "Ann <ann@x.io>" -> "Ann"
      [] OTHER -> participant_field

\* DataExportConnector._extract_recipients
_extract_recipients(recipients_field) ==
    CASE recipients_field = "" -> <<>>
      [] recipients_field = "Ann, cy@x.io" -> <<"Ann", "cy@x.io">>
      [] OTHER -> <<_extract_participant(recipients_field)>>

\* DataExportConnector._extract_email, applied to the extracted name
_extract_email(participant_string) ==
    CASE participant_string = "cy@x.io" -> "cy@x.io"
      [] OTHER -> NONE

\* participants_map: names in insertion order, position = participant_id
RECURSIVE add_participants(_, _, _)
add_participants(participants_map, names, date_field) ==
    IF names = <<>> THEN participants_map
    ELSE LET name == Head(names)
             known == \E k \in DOMAIN participants_map :
                          participants_map[k].name = name
         IN add_participants(
                IF name # "" /\ ~known
                THEN Append(participants_map,
                        [name |-> name, email |-> _extract_email(name),
                         first_seen |-> date_field])
                ELSE participants_map,
                Tail(names), date_field)

participant_id_of(participants_map, name) ==
    First({ix \in DOMAIN participants_map : participants_map[ix].name = name})

\* one iteration of the loop of _parse_messages
parse_message_step(acc, msg) ==
    LET sender     == _extract_participant(msg.FROM)
        recipients == _extract_recipients(msg.TO)
        pm         == add_participants(acc.participants_map,
                                       <<sender>> \o recipients, msg.DATE)
        all_participants ==
            SortSeq(<<sender>> \o recipients,
                    LAMBDA a, b : NameRank(a) < NameRank(b))
        conversation_key == <<msg.SUBJECT, all_participants>>
        known == First({ix \in DOMAIN acc.conversations_map :
                         /\ acc.conversations_map[ix].conversation_key = conversation_key})
        in_map == SelectSeq(all_participants,
                            LAMBDA q : participant_id_of(pm, q) # 0)
        cm == IF known # 0 THEN acc.conversations_map
              ELSE Append(acc.conversations_map,
                    [conversation_key |-> conversation_key,
                     subject |-> IF msg.SUBJECT = "" THEN "(No Subject)"
                                 ELSE msg.SUBJECT,
                     participant_ids |->
                        [k \in DOMAIN in_map |->
                            ParticipantTokens[participant_id_of(pm, in_map[k])]],
                     created_at |-> msg.DATE])
        conv == IF known # 0 THEN known ELSE Len(cm)
    IN [participants_map |-> pm,
        conversations_map |-> cm,
        parsed_messages |-> Append(acc.parsed_messages,
            [message_id |-> MessageTokens[Len(acc.parsed_messages) + 1],
             conversation_id |-> ConversationTokens[conv],
             sender_id |-> IF participant_id_of(pm, sender) = 0 THEN NONE
                           ELSE ParticipantTokens[participant_id_of(pm, sender)],
             content |-> msg.CONTENT,
             sent_at |-> msg.DATE])]

RECURSIVE parse_messages_loop(_, _, _)
parse_messages_loop(messages, n, acc) ==
    IF n > Len(messages) THEN acc
    ELSE parse_messages_loop(messages, n + 1, parse_message_step(acc, messages[n]))

\* DataExportConnector._parse_messages: the three tables built from the rows
_parse_messages(messages) ==
    LET acc == parse_messages_loop(messages, 1,
                   [participants_map |-> <<>>, conversations_map |-> <<>>,
                    parsed_messages |-> <<>>])
    IN [keys |-> {"messages", "participants", "conversations"},
        participants |->
            [k \in DOMAIN acc.participants_map |->
                [linkedin_id |-> ParticipantTokens[k],
                 full_name |-> acc.participants_map[k].name,
                 email |-> acc.participants_map[k].email]],
        conversations |->
            [k \in DOMAIN acc.conversations_map |->
                [conversation_id |-> ConversationTokens[k],
                 participant_ids |-> acc.conversations_map[k].participant_ids,
                 conversation_title |-> acc.conversations_map[k].subject,
                 created_at |-> acc.conversations_map[k].created_at,
                 last_message_at |-> NoTime]],
        messages |-> acc.parsed_messages]

\* DataExportConnector.FILE_MAPPINGS: data type -> file looked for in the ZIP
FILE_MAPPINGS ==
    [data_type \in {"messages", "connections", "profile", "reactions",
                    "invitations", "contacts", "registrations"} |->
        CASE data_type = "messages"      -> "messages.csv"
          [] data_type = "connections"   -> "Connections.csv"
          [] data_type = "profile"       -> "Profile.csv"
          [] data_type = "reactions"     -> "Reactions.csv"
          [] data_type = "invitations"   -> "Invitations.csv"
          [] data_type = "contacts"      -> "Contacts.csv"
          [] data_type = "registrations" -> "Registration.csv"]

\* DataExportConnector._extract_file_from_zip: the records of the file, []
\* when the ZIP has no such file (a file holding only its header has none)
_extract_file_from_zip(archive, target_filename) ==
    IF target_filename \in DOMAIN archive.files
    THEN archive.files[target_filename]
    ELSE <<>>

\* DataExportConnector.extract: the raw table map, or the exception raised.
\* Every mapped file with records becomes a key of raw_data; messages are
\* split into the three tables; a ZIP without any record is a ValueError.
extract(archive) ==
    IF archive.corrupt THEN [error |-> "BadZipFile", raw_data |-> <<>>]
    ELSE LET found == {data_type \in DOMAIN FILE_MAPPINGS :
                        _extract_file_from_zip(archive, FILE_MAPPINGS[data_type]) # <<>>}
         IN IF "messages" \in found
            THEN [error |-> NONE,
                  raw_data |->
                    [_parse_messages(_extract_file_from_zip(archive, FILE_MAPPINGS["messages"]))
                        EXCEPT !.keys = found \cup {"participants", "conversations"}]]
            ELSE IF found = {}
            THEN [error |-> "ValueError", raw_data |-> <<>>]
            ELSE [error |-> NONE,
                  raw_data |-> [keys |-> found, participants |-> <<>>,
                                conversations |-> <<>>, messages |-> <<>>]]

(***************************************************************************)
(* The archives a run may be pointed at, by content hash.                  *)
(***************************************************************************)

Row(from, to, date, subject, content) ==
    [FROM |-> from, TO |-> to, DATE |-> date, SUBJECT |-> subject,
     CONTENT |-> content]

\* a record of a file other than messages.csv (its fields are not read)
OtherRecord == [fields |-> "any"]

MessagesArchive(rows) ==
    [corrupt |-> FALSE, files |-> [f \in {"messages.csv"} |-> rows]]

Archive(hash) ==
    CASE hash = "h1" -> \* a two-message exchange
            MessagesArchive(<<Row("Ann <ann@x.io>", "Bob", 2, "S", "hi"),
                              Row("Bob", "Ann", 1, "S", "hi  there")>>)
      [] hash = "h2" -> \* a message without sender
            MessagesArchive(<<Row("", "Bob", 3, "S", "hi")>>)
      [] hash = "h3" -> \* a sender whose name is punctuation only
            MessagesArchive(<<Row("...", "Bob", 2, "S", "hi")>>)
      [] hash = "h4" -> \* a group message without subject
            MessagesArchive(<<Row("Bob", "Ann, cy@x.io", 3, "", "yo")>>)
      [] hash = "h5" -> \* an export without messages.csv
            [corrupt |-> FALSE,
             files |-> [f \in {"Connections.csv"} |-> <<OtherRecord>>]]
      [] hash = "h6" -> \* not a ZIP file
            [corrupt |-> TRUE, files |-> <<>>]
      [] hash = "h7" -> \* only Profile.csv, one record
            [corrupt |-> FALSE,
             files |-> [f \in {"Profile.csv"} |-> <<OtherRecord>>]]
      [] hash = "h8" -> \* Connections.csv holding only its header
            [corrupt |-> FALSE, files |-> [f \in {"Connections.csv"} |-> <<>>]]
      [] hash = "h9" -> \* messages.csv next to Connections.csv
            [corrupt |-> FALSE,
             files |-> [f \in {"messages.csv", "Connections.csv"} |->
                          IF f = "messages.csv"
                          THEN <<Row("Bob", "Ann", 2, "S", "hi")>>
                          ELSE <<OtherRecord>>]]

ArchiveHashes == {"h1", "h2", "h3", "h4", "h5", "h6", "h7", "h8", "h9"}

(***************************************************************************)
(* Orchestrator (IngestionJob.run_ingestion)                               *)
(*                                                                         *)
(* run_ingestion takes no lock: the scheduler thread and the background    *)
(* tasks of the API may be inside it at the same time, each with a session *)
(* of its own on the one SQLite file, all sharing the job object and the   *)
(* normalizer singleton.  An activation advances in steps that each hold   *)
(* one access to what the activations share: a store to the job object, a  *)
(* read or an increment of the normalizer's counters, a query on the       *)
(* committed database, a flush that takes the write lock, a commit.  Code  *)
(* that touches only the activation's own data runs with the step before   *)
(* or after it.                                                            *)
(***************************************************************************)

NoRun == [pc |-> "idle"]

\* The keys of the dict get_database_summary returns, in the order in which
\* their queries are issued.
SummaryFields ==
    <<"total_participants", "total_conversations", "total_messages",
      "latest_message", "earliest_message", "total_ingestion_runs",
      "successful_runs">>

\* DatabaseRepository.get_database_summary on one committed state s
get_database_summary(s) ==
    [total_participants |-> Len(s.participants),
     total_conversations |-> Len(s.conversations),
     total_messages |-> Len(s.messages),
     latest_message |->
        IF s.messages = <<>> THEN NoTime
        ELSE SetMax({s.messages[k].sent_at : k \in DOMAIN s.messages}),
     earliest_message |->
        IF s.messages = <<>> THEN NoTime
        ELSE SetMin({s.messages[k].sent_at : k \in DOMAIN s.messages}),
     total_ingestion_runs |-> Len(s.ingestion_runs),
     successful_runs |->
        Cardinality({k \in DOMAIN s.ingestion_runs :
                        s.ingestion_runs[k].status = "success"})]

\* The summary after the next n queries of get_database_summary have run on
\* committed state s; db_totals holds the answers of the queries before
\* them.  Each query is a statement of its own: no transaction spans them.
read_summary(db_totals, s, n) ==
    LET read == Cardinality(DOMAIN db_totals)
    IN [f \in DOMAIN db_totals \cup {SummaryFields[i] : i \in (read + 1)..(read + n)} |->
           IF f \in DOMAIN db_totals THEN db_totals[f]
           ELSE get_database_summary(s)[f]]

\* Mutant of _reconcile_data: the message check comes first, so a later
\* participant or conversation mismatch overwrites FAIL with WARNING.
_reconcile_data_messages_first(normalized_data, inserted_counts) ==
    IF \/ inserted_counts.participants # Len(normalized_data.participants)
       \/ inserted_counts.conversations # Len(normalized_data.conversations)
    THEN "WARNING"
    ELSE IF inserted_counts.messages # Len(normalized_data.messages) THEN "FAIL"
    ELSE "SUCCESS"

\* IngestionJob._reconcile_data: the report's status
_reconcile_data(normalized_data, inserted_counts) ==
    IF inserted_counts.messages # Len(normalized_data.messages) THEN "FAIL"
    ELSE IF \/ inserted_counts.participants # Len(normalized_data.participants)
            \/ inserted_counts.conversations # Len(normalized_data.conversations)
    THEN "WARNING"
    ELSE "SUCCESS"

\* ZipPackageService.create_package as run_ingestion calls it: the exception
\* it raises, NONE if it returns.  It walks data.items() and treats every
\* non-empty value as a list of records: the connector-format result carries
\* the stats dict, whose keys are strings (AttributeError on .keys()).  The
\* manifest is dumped without a serializer for datetime, and the metadata
\* holds the database summary's latest_message (TypeError once a message is
\* stored).
create_package(normalized_data, db_totals) ==
    IF normalized_data.format = "connector" THEN "AttributeError"
    ELSE IF db_totals.latest_message # NoTime THEN "TypeError"
    ELSE NONE

\* The stage names of run_ingestion, in the order the code assigns them to
\* run_status["stage"].
StageChain ==
    <<"locating_source", "checking_duplicate", "initializing_run", "parsing",
      "normalizing", "inserting_db", "reconciling", "finalizing_run",
      "packaging", "archiving", "emailing", "completed">>

\* len() of each table of the normalized data (stats.normalized_counts)
norm_counts(normalized_data) ==
    [participants |-> Len(normalized_data.participants),
     conversations |-> Len(normalized_data.conversations),
     messages |-> Len(normalized_data.messages),
     conversation_participants |-> Len(normalized_data.conversation_participants)]

\* The run_status dictionary of activation r.  stages lists every value
\* run_status["stage"] was given, in order; the dictionary itself keeps the
\* last one.  Counts that were never stored in stats read as NoCounts, a
\* report that was never stored as NONE.
run_status(r) ==
    [run_id |-> r.run_id,
     start_time |-> r.start_time,
     end_time |-> r.end_time,
     status |-> r.status,
     stage |-> r.stages[Len(r.stages)],
     stages |-> r.stages,
     error |-> r.error,
     source_hash |-> r.source_hash,
     normalized_counts |-> r.normalized_counts,
     db_inserted |-> r.inserted_counts,
     reconciliation |-> r.reconciliation]

\* Number of runs in one behaviour of Spec.
MaxRuns == 2

\* Largest number of activations of run_ingestion in progress at one time.
MaxOverlap == 2

\* the identifiers the runs of one behaviour draw
RunIds == {uuid4(n) : n \in 1..MaxRuns}

\* The archives in the file system, in the incoming directory or where a
\* request points, by specification.  Any run may be pointed at any of them
\* or at a path that names no file, whatever the other runs are doing.
\* Spec: exports without messages.csv, a file that is no ZIP archive, an
\* empty export and a one-message export.
Sources == {"h5", "h6", "h8", "h9"}

\* SpecExchange: the two-message exchange, and the export whose one message
\* names no sender.
ExchangeSources == {"h1", "h2"}

\* SpecRejected: the exports whose message the insertion stage rejects, and
\* the archives that hold no record to insert.
RejectedSources == {"h2", "h3", "h5", "h6", "h7", "h8"}

\* the activations of run_ingestion in progress
Active == {id \in DOMAIN run : run[id] # NoRun}

\* The activations after activation id has taken a step that leaves it as r:
\* every other activation in progress has now run next to another one.
Step(id, r) ==
    [j \in DOMAIN run |->
        IF j = id THEN r
        ELSE IF run[j] = NoRun THEN NoRun
        ELSE [run[j] EXCEPT !.overlapped = TRUE]]

\* The process after start-up, on an empty database, with the given archives
\* in the file system.
InitWith(archives) ==
    /\ incoming = archives
    /\ db = EmptyDb
    /\ tx = EmptyDb
    /\ clock = 1
    /\ raw = <<>>
    /\ normalized = <<>>
    /\ run = [id \in RunIds |-> NoRun]
    /\ history = <<>>
    /\ current_run_id = NONE
    /\ last_run_status = NoStatus
    /\ tasks = {}
    /\ threads = {}
    /\ next_id = 1
    /\ last_call = NoCall
    /\ calls = NoKeys
    /\ service_stats = ZeroStats
    /\ hash_seed = <<>>

Init == InitWith(Sources)

InitExchange == InitWith(ExchangeSources)

InitRejected == InitWith(RejectedSources)

\* The activation record at the top of run_ingestion: run id drawn, start
\* time read, status RUNNING, stage None, no run row, nothing extracted or
\* normalized.  pc is the position of the thread; events are the increments
\* of the shared stats the normalizers still have to make.  lock tells that
\* the activation's connection holds the write lock of the database: it has
\* flushed a statement and neither committed nor rolled back; session is
\* then the database as its own session sees it, flushed rows included.
\* pending are the conversation rows whose attributes it has assigned and
\* not flushed; outcome and poisoned describe its session after a failure.
\* seen is the row the first SELECT of the insertion stage found.  before
\* is the committed database at entry, overlapped tells whether another
\* activation was in progress at any time during this one, commits counts
\* the commits of this activation that wrote.
NewRun(run_id, now, before) ==
    [pc |-> "entered", run_id |-> run_id, start_time |-> now, end_time |-> NoTime,
     status |-> "RUNNING", error |-> NONE,
     source |-> NONE, source_hash |-> NONE, ingestion_run |-> 0,
     stages |-> <<>>,
     raw_data |-> <<>>, normalized_data |-> <<>>, events |-> <<>>,
     normalized_counts |-> NoCounts, inserted_counts |-> NoCounts,
     session |-> <<>>, lock |-> FALSE, pending |-> <<>>,
     outcome |-> "ok", poisoned |-> FALSE, seen |-> 0,
     db_totals |-> <<>>, reconciliation |-> NONE, before |-> before,
     overlapped |-> Active # {}, commits |-> 0]

\* SQLite lets one connection write at a time.  A connection takes the write
\* lock with the first INSERT or UPDATE it flushes and keeps it until it
\* commits or rolls back: from the flush of the run row to its commit, from
\* the first flush of the insertion stage to its commit or failure, from the
\* flush of the success update to its commit, from the flush of the except
\* branch's update to its commit.  A write of another activation waits for
\* the lock or, when the wait exceeds the busy timeout, raises
\* OperationalError (database is locked).  Reads are not held up, and see
\* what is committed.
LockedOut(id) ==
    \E j \in Active \ {id} : run[j].lock

\* An exception raised in activation r (jobs.py 222-224): control goes to
\* the except branch with status FAILED and the error text stored; the
\* recorded stage stays the one the run was in.
Raise(r, error, outcome) ==
    [r EXCEPT !.pc = "failing", !.status = "FAILED", !.error = error,
              !.outcome = outcome]

\* jobs.py 49-66: the run id is drawn and stored in current_run_id, whatever
\* the field held; run_status is built and a session opened.  run_ingestion
\* takes no lock and does not look at current_run_id.
Enter ==
    /\ next_id <= MaxRuns
    /\ Cardinality(Active) < MaxOverlap
    /\ clock' = clock + 1
    /\ next_id' = next_id + 1
    /\ current_run_id' = uuid4(next_id)
    /\ run' = Step(uuid4(next_id), NewRun(uuid4(next_id), clock, db))
    /\ UNCHANGED <<db, tx, raw, service_stats, hash_seed, incoming, normalized, history, last_run_status,
                   tasks, threads, last_call, calls>>

\* Stages locating_source and checking_duplicate (jobs.py 68-93).  source is
\* the hash of the archive found, NONE if there is none (the path given does
\* not exist, or the incoming directory holds no archive); readable tells
\* whether compute_file_hash can open and read the file.  The run raises
\* without an archive or a hash, leaves the try block with status SKIPPED
\* when the committed database holds a success row for the hash, and goes
\* on otherwise.
LocateAndCheck(id, source, readable) ==
    /\ run[id].pc = "entered"
    /\ run' = Step(id,
          IF source = NONE
          THEN Raise([run[id] EXCEPT !.stages = <<"locating_source">>],
                     "FileNotFoundError", "ok")
          ELSE IF ~readable
          THEN Raise([run[id] EXCEPT
                        !.source = source,
                        !.stages = <<"locating_source", "checking_duplicate">>],
                     "OSError", "ok")
          ELSE IF check_zip_already_ingested(db, source)
          THEN [run[id] EXCEPT
                  !.pc = "finally",
                  !.source = source,
                  !.source_hash = source,
                  !.status = "SKIPPED",
                  !.error = "ZIP file already successfully ingested",
                  !.stages = <<"locating_source", "checking_duplicate",
                               "duplicate_detected">>]
          ELSE [run[id] EXCEPT
                  !.pc = "checked",
                  !.source = source,
                  !.source_hash = source,
                  !.stages = <<"locating_source", "checking_duplicate">>])
    /\ UNCHANGED <<db, tx, clock, raw, service_stats, hash_seed, incoming, normalized, history,
                   current_run_id, last_run_status, tasks, threads, next_id, last_call, calls>>

\* Stage initializing_run up to the flush of create_ingestion_run (jobs.py
\* 95-103, repo.py 481-489): the run row is inserted in the activation's
\* session, whatever other activations have committed since the duplicate
\* check.  The INSERT takes the write lock.
CreateRun(id) ==
    /\ run[id].pc = "checked"
    /\ \E r \in {[run[id] EXCEPT !.stages = @ \o <<"initializing_run">>]} :
       IF LockedOut(id)
       THEN /\ run' = Step(id, Raise(r, "OperationalError", "db_error"))
            /\ UNCHANGED clock
       ELSE \E s \in {create_ingestion_run(db, r.run_id, r.source, r.source_hash, clock)} :
            /\ run' = Step(id, [r EXCEPT
                                  !.pc = "run_created",
                                  !.session = s,
                                  !.lock = TRUE,
                                  !.ingestion_run = id_of_ingestion_run(s, r.run_id)])
            /\ clock' = clock + 1
    /\ UNCHANGED <<db, tx, raw, service_stats, hash_seed, incoming, normalized, history, current_run_id,
                   last_run_status, tasks, threads, next_id, last_call, calls>>

\* session.commit() of stage initializing_run (jobs.py 104).
CommitRun(id) ==
    /\ run[id].pc = "run_created"
    /\ db' = run[id].session
    /\ tx' = run[id].session
    /\ run' = Step(id, [run[id] EXCEPT !.pc = "parsing", !.session = <<>>,
                                       !.lock = FALSE, !.commits = @ + 1])
    /\ UNCHANGED <<clock, raw, service_stats, hash_seed, incoming, normalized, history, current_run_id,
                   last_run_status, tasks, threads, next_id, last_call, calls>>

\* The increments of self.stats one normalizer makes, in order: after is the
\* list of the counters after 0, 1, 2, ... records.  A record raises
\* validation_errors and the skipped counter, or the processed counter.
RECURSIVE Increments(_, _, _)
Increments(after, skipped, processed) ==
    IF Len(after) < 2 THEN <<>>
    ELSE (IF after[2].validation_errors > after[1].validation_errors
          THEN <<"validation_errors">> ELSE <<>>)
         \o (IF after[2][skipped] > after[1][skipped] THEN <<skipped>> ELSE <<>>)
         \o (IF after[2][processed] > after[1][processed] THEN <<processed>> ELSE <<>>)
         \o Increments(Tail(after), skipped, processed)

\* The increments of self.stats that normalize_all makes on raw_data, in
\* order, record by record.  The connector format normalizes participants,
\* conversations, messages, the messages checked against the two results
\* before them.  The table format normalizes each table on its own, in the
\* order in which the dict raw_data yields its keys: key_order lists those
\* of its keys that name one of the three tables.
StatEvents(raw_data, hash_orders, key_order) ==
    LET connector == \/ "metadata" \in raw_data.keys
                     \/ {"participants", "conversations", "messages"} \subseteq raw_data.keys
        P == Table(raw_data, "participants")
        C == Table(raw_data, "conversations")
        M == Table(raw_data, "messages")
        p == normalize_participants(P, ZeroStats)
        c == normalize_conversations(C, ZeroStats, hash_orders)
        of_table(name) ==
            CASE name = "participants" ->
                    Increments([k \in 1..(Len(P) + 1) |->
                                   normalize_participants(SubSeq(P, 1, k - 1), ZeroStats).stats],
                               "participants_skipped", "participants_processed")
              [] name = "conversations" ->
                    Increments([k \in 1..(Len(C) + 1) |->
                                   normalize_conversations(SubSeq(C, 1, k - 1), ZeroStats,
                                                           hash_orders).stats],
                               "conversations_skipped", "conversations_processed")
              [] name = "messages" ->
                    Increments([k \in 1..(Len(M) + 1) |->
                                   normalize_messages(SubSeq(M, 1, k - 1),
                                                      IF connector THEN p.map ELSE <<>>,
                                                      IF connector THEN c.map ELSE <<>>,
                                                      ZeroStats).stats],
                               "messages_skipped", "messages_processed")
        order == IF connector THEN <<"participants", "conversations", "messages">>
                 ELSE key_order
        of_key(i) == IF i \in DOMAIN order THEN of_table(order[i]) ELSE <<>>
    IN of_key(1) \o of_key(2) \o of_key(3)

\* Stage parsing and the entry of normalize_all (jobs.py 107-114,
\* normalize.py 45-71): the archive is read, then _reset_stats() zeroes the
\* counters of the normalize_service singleton, which every activation
\* shares.  The records the normalizers will return depend on the raw data
\* and on the iteration order of the sets only, so they are fixed here; the
\* counters are raised one by one in StatEvent.  The string hash seed is
\* drawn once per process: normalizing the same raw conversations again meets
\* the iteration orders met before.  extract fills its dict with messages
\* first and adds participants and conversations last (data_export.py 73-76,
\* 316-318).
ParseAndReset(id) ==
    /\ run[id].pc = "parsing"
    /\ \E x \in {extract(Archive(run[id].source))} :
       IF x.error # NONE
       THEN /\ run' = Step(id, Raise([run[id] EXCEPT !.stages = @ \o <<"parsing">>],
                                     x.error, "ok"))
            /\ UNCHANGED <<service_stats, hash_seed, incoming>>
       ELSE LET C == Table(x.raw_data, "conversations")
                key_order == SelectSeq(<<"messages", "participants", "conversations">>,
                                       LAMBDA t : t \in x.raw_data.keys)
            IN
            /\ service_stats' = ZeroStats
            /\ \E hash_orders \in {o \in HashOrders(C) :
                                       C \in DOMAIN hash_seed => o = hash_seed[C]} :
               /\ hash_seed' = [c \in DOMAIN hash_seed \cup {C} |->
                                   IF c = C THEN hash_orders ELSE hash_seed[c]]
               /\ run' = Step(id, [run[id] EXCEPT
                                      !.pc = "normalizing",
                                      !.stages = @ \o <<"parsing", "normalizing">>,
                                      !.raw_data = x.raw_data,
                                      !.normalized_data = normalize_all(x.raw_data, hash_orders),
                                      !.events = StatEvents(x.raw_data, hash_orders, key_order)])
    /\ UNCHANGED <<db, tx, clock, raw, normalized, history, current_run_id, last_run_status,
                   tasks, threads, next_id, last_call, calls, incoming>>

\* self.stats[counter] += 1 of activation id, on the shared counters as the
\* other activations have left them.
StatEvent(id) ==
    /\ run[id].pc = "normalizing"
    /\ run[id].events # <<>>
    /\ service_stats' = [service_stats EXCEPT ![Head(run[id].events)] = @ + 1]
    /\ run' = Step(id, [run[id] EXCEPT !.events = Tail(@)])
    /\ UNCHANGED <<db, tx, clock, raw, hash_seed, incoming, normalized, history, current_run_id,
                   last_run_status, tasks, threads, next_id, last_call, calls>>

\* The return of normalize_all (normalize.py 104-114, jobs.py 114-133): the
\* connector-format result carries a copy of the shared counters as they are
\* now, a table-format result carries none; the run keeps the lengths of the
\* normalized tables.
CopyStats(id) ==
    /\ run[id].pc = "normalizing"
    /\ run[id].events = <<>>
    /\ \E n \in {IF run[id].normalized_data.format = "connector"
                 THEN [run[id].normalized_data EXCEPT !.stats = service_stats]
                 ELSE run[id].normalized_data} :
         run' = Step(id, [run[id] EXCEPT
                            !.pc = "normalized",
                            !.normalized_data = n,
                            !.normalized_counts = norm_counts(n)])
    /\ UNCHANGED <<db, tx, clock, raw, service_stats, hash_seed, incoming, normalized, history, current_run_id,
                   last_run_status, tasks, threads, next_id, last_call, calls>>

\* The row the first upsert of the insertion stage finds in session state s
\* (0: none): the first normalized participant or, without participants, the
\* first normalized conversation.
first_upsert_row(s, normalized_data) ==
    IF normalized_data.participants # <<>>
    THEN id_of_participant(s, normalized_data.participants[1].linkedin_id)
    ELSE IF normalized_data.conversations # <<>>
    THEN id_of_conversation(s, normalized_data.conversations[1].conversation_id)
    ELSE 0

\* The entry of stage inserting_db and the SELECT of its first upsert
\* (jobs.py 134-139, 287-290, repo.py 105-107).  The session has written
\* nothing since its last commit, so the query runs outside any transaction
\* and reads the committed database.
InsertSelect(id) ==
    /\ run[id].pc = "normalized"
    /\ run' = Step(id, [run[id] EXCEPT
                          !.pc = "inserting_db",
                          !.stages = @ \o <<"inserting_db">>,
                          !.seen = first_upsert_row(db, run[id].normalized_data)])
    /\ UNCHANGED <<db, tx, clock, raw, service_stats, hash_seed, incoming, normalized, history, current_run_id,
                   last_run_status, tasks, threads, next_id, last_call, calls>>

\* The first flush of the insertion stage (repo.py 108-143 for a
\* participant): the first INSERT or UPDATE of the stage takes the write
\* lock.  Until then the upserts of the stage find rows and leave them
\* alone; from then on the committed database stands still until the stage
\* commits or rolls back.  With MaxRuns runs on a database that starts
\* empty the data tables change at most once while the stage runs, with the
\* one commit of the other activation: a query that ran before that commit
\* found no row, and the first query of the stage is kept in seen.  It raises OperationalError when another activation holds the lock
\* past the timeout, and IntegrityError when it inserts a key that was
\* absent when the SELECT ran and has been committed by another activation
\* since (unique constraint).  A stage that has nothing to write goes on
\* without the lock; one whose first statement the database rejects, or
\* that raises before it has flushed anything, fails without it.
InsertFirst(id) ==
    /\ run[id].pc = "inserting_db"
    /\ \E res \in {_insert_normalized_data(db, clock, run[id].normalized_data,
                                             run[id].ingestion_run)} :
       run' = Step(id,
          IF (res.flushed # db \/ res.outcome = "db_error") /\ LockedOut(id)
          THEN Raise(run[id], "OperationalError", "db_error")
          ELSE IF /\ run[id].seen = 0
                  /\ first_upsert_row(db, run[id].normalized_data) # 0
          THEN Raise(run[id], "IntegrityError", "db_error")
          ELSE IF res.flushed # db
          THEN [run[id] EXCEPT !.pc = "inserting_rest", !.lock = TRUE, !.session = db]
          ELSE IF res.outcome = "ok"
          THEN [run[id] EXCEPT !.pc = "committing",
                               !.inserted_counts = res.inserted_counts]
          ELSE [Raise(run[id], res.error, res.outcome) EXCEPT
                  !.pending = res.pending,
                  !.poisoned = res.poisoned])
    /\ UNCHANGED <<db, tx, clock, raw, service_stats, hash_seed, incoming, normalized, history, current_run_id,
                   last_run_status, tasks, threads, next_id, last_call, calls>>

\* The rest of the insertion stage, under the write lock (jobs.py 287-392):
\* the upserts, each a SELECT followed by INSERT or UPDATE and a flush, in
\* the activation's own session.  A flush the database rejects rolls the
\* transaction back and gives the lock up at once; an exception raised by
\* the Python code leaves the flushed rows, the pending attributes and the
\* lock with the session.
InsertRest(id) ==
    /\ run[id].pc = "inserting_rest"
    /\ \E res \in {_insert_normalized_data(db, clock, run[id].normalized_data,
                                             run[id].ingestion_run)} :
       run' = Step(id,
          IF res.outcome = "ok"
          THEN [run[id] EXCEPT !.pc = "committing",
                               !.session = res.s,
                               !.inserted_counts = res.inserted_counts]
          ELSE IF res.outcome = "db_error"
          THEN [Raise(run[id], res.error, res.outcome) EXCEPT
                  !.session = <<>>, !.lock = FALSE]
          ELSE [Raise(run[id], res.error, res.outcome) EXCEPT
                  !.session = res.flushed,
                  !.pending = res.pending,
                  !.poisoned = res.poisoned])
    /\ clock' = clock + 1
    /\ UNCHANGED <<db, tx, raw, service_stats, hash_seed, incoming, normalized, history, current_run_id,
                   last_run_status, tasks, threads, next_id, last_call, calls>>

\* session.commit() of the insertion stage (jobs.py 142-146).
InsertCommit(id) ==
    /\ run[id].pc = "committing"
    /\ db' = (IF run[id].lock THEN run[id].session ELSE db)
    /\ tx' = (IF run[id].lock THEN run[id].session ELSE db)
    /\ run' = Step(id, [run[id] EXCEPT
                          !.pc = "reconciling",
                          !.session = <<>>,
                          !.lock = FALSE,
                          !.commits = IF run[id].lock THEN @ + 1 ELSE @])
    /\ UNCHANGED <<clock, raw, service_stats, hash_seed, incoming, normalized, history, current_run_id,
                   last_run_status, tasks, threads, next_id, last_call, calls>>

\* Stage reconciling (jobs.py 148-157, repo.py 826-836): the next n queries
\* of the database summary, each on the database as committed when it runs,
\* and after the last one the report, which is stored in the run's stats;
\* nothing reads its status.  The queries of one summary fall into several
\* steps only where the committed database can change between them: while
\* another activation holds rows it has flushed and not committed.
ReconcileRun(id, n) ==
    /\ run[id].pc = "reconciling"
    /\ \E read \in {Cardinality(DOMAIN run[id].db_totals)} :
       /\ read + n <= Len(SummaryFields)
       /\ read + n = Len(SummaryFields) \/ LockedOut(id)
       /\ run' = Step(id, [run[id] EXCEPT
                             !.pc = IF read + n = Len(SummaryFields)
                                    THEN "finalizing_run" ELSE @,
                             !.stages = IF read = 0 THEN @ \o <<"reconciling">> ELSE @,
                             !.db_totals = read_summary(@, db, n),
                             !.reconciliation =
                                 IF read + n = Len(SummaryFields)
                                 THEN _reconcile_data(run[id].normalized_data,
                                                      run[id].inserted_counts)
                                 ELSE @])
    /\ UNCHANGED <<db, tx, clock, raw, service_stats, hash_seed, incoming, normalized, history, current_run_id,
                   last_run_status, tasks, threads, next_id, last_call, calls>>

\* Stage finalizing_run up to the flush of update_ingestion_run (jobs.py
\* 159-174, repo.py 520-537): the run row is set to success in the
\* activation's session.  The UPDATE takes the write lock.
Finalize(id) ==
    /\ run[id].pc = "finalizing_run"
    /\ \E r \in {[run[id] EXCEPT !.stages = @ \o <<"finalizing_run">>]} :
       IF LockedOut(id)
       THEN /\ run' = Step(id, Raise(r, "OperationalError", "db_error"))
            /\ UNCHANGED clock
       ELSE /\ run' = Step(id, [r EXCEPT
                 !.pc = "finalizing_commit",
                 !.lock = TRUE,
                 !.session =
                     update_ingestion_run(db, r.ingestion_run, "success", clock, NONE,
                        [messages_found |-> r.normalized_counts.messages,
                         messages_inserted |-> r.inserted_counts.messages,
                         conversations_found |-> r.normalized_counts.conversations,
                         conversations_inserted |-> r.inserted_counts.conversations,
                         participants_found |-> r.normalized_counts.participants,
                         participants_inserted |-> r.inserted_counts.participants])])
            /\ clock' = clock + 1
    /\ UNCHANGED <<db, tx, raw, service_stats, hash_seed, incoming, normalized, history, current_run_id,
                   last_run_status, tasks, threads, next_id, last_call, calls>>

\* session.commit() of stage finalizing_run (jobs.py 175).
FinalizeCommit(id) ==
    /\ run[id].pc = "finalizing_commit"
    /\ db' = run[id].session
    /\ tx' = run[id].session
    /\ run' = Step(id, [run[id] EXCEPT !.pc = "packaging", !.session = <<>>,
                                       !.lock = FALSE, !.commits = @ + 1])
    /\ UNCHANGED <<clock, raw, service_stats, hash_seed, incoming, normalized, history, current_run_id,
                   last_run_status, tasks, threads, next_id, last_call, calls>>

\* Stages packaging, archiving and emailing of activation id (jobs.py
\* 177-220; the archive is copied, e-mail is off by default).  The package's
\* metadata holds the report built in stage reconciling, with the database
\* summary read then.
PackageAndDeliver(id) ==
    /\ run[id].pc = "packaging"
    /\ \E error \in {create_package(run[id].normalized_data, run[id].db_totals)} :
       run' = Step(id,
          IF error # NONE
          THEN Raise([run[id] EXCEPT !.stages = @ \o <<"packaging">>], error, "ok")
          ELSE [run[id] EXCEPT
                  !.pc = "finally",
                  !.status = "SUCCESS",
                  !.stages = @ \o <<"packaging", "archiving", "emailing", "completed">>])
    /\ UNCHANGED <<db, tx, clock, raw, service_stats, hash_seed, incoming, normalized, history, current_run_id,
                   last_run_status, tasks, threads, next_id, last_call, calls>>

\* The except branch up to the flush of its update (jobs.py 222-238, 245):
\* with a run row, update_ingestion_run marks it failed in the activation's
\* session, on top of what the failed stage flushed and assigned.  The
\* UPDATE needs the write lock: an activation that does not hold it yet and
\* finds it taken past the timeout raises inside the branch.  An error
\* inside the branch is logged, and the rollback that follows drops what the
\* session holds.
ExceptUpdate(id) ==
    /\ run[id].pc = "failing"
    /\ LET r    == run[id]
           base == IF r.lock THEN r.session ELSE db
           view == IF r.pending = <<>> THEN base
                   ELSE [base EXCEPT !.conversations =
                            [k \in DOMAIN base.conversations |->
                                IF k \in DOMAIN r.pending THEN r.pending[k]
                                ELSE base.conversations[k]]]
           s    == except_branch(db, view, r.outcome, r.poisoned, r.ingestion_run,
                                 clock, r.error)
       IN run' = Step(id,
             IF s = db \/ (~r.lock /\ LockedOut(id))
             THEN [r EXCEPT !.pc = "finally", !.session = <<>>, !.lock = FALSE,
                            !.pending = <<>>]
             ELSE [r EXCEPT !.pc = "except_commit", !.session = s, !.lock = TRUE,
                            !.pending = <<>>])
    /\ UNCHANGED <<db, tx, clock, raw, service_stats, hash_seed, incoming, normalized, history, current_run_id,
                   last_run_status, tasks, threads, next_id, last_call, calls>>

\* session.commit() of the except branch (jobs.py 240): the failed row is
\* committed, with every row the session had flushed before.
ExceptCommit(id) ==
    /\ run[id].pc = "except_commit"
    /\ db' = run[id].session
    /\ tx' = run[id].session
    /\ run' = Step(id, [run[id] EXCEPT !.pc = "finally", !.session = <<>>,
                                       !.lock = FALSE, !.commits = @ + 1])
    /\ UNCHANGED <<clock, raw, service_stats, hash_seed, incoming, normalized, history, current_run_id,
                   last_run_status, tasks, threads, next_id, last_call, calls>>

\* The finally block up to its second store (jobs.py 255-258): the end time
\* is read, the job object keeps the status record and forgets the run id,
\* whichever activation had stored it.  The two stores are one step here:
\* a store of another activation that falls between them leaves the same
\* fields as one that follows both.  SpecFlight, where requests read the
\* fields at any moment, takes the stores one by one.
Finally(id) ==
    /\ run[id].pc = "finally"
    /\ \E r \in {[run[id] EXCEPT !.pc = "returning", !.end_time = clock]} :
         /\ last_run_status' = run_status(r)
         /\ run' = Step(id, r)
    /\ current_run_id' = NONE
    /\ clock' = clock + 1
    /\ UNCHANGED <<db, tx, raw, service_stats, hash_seed, incoming, normalized, history,
                   tasks, threads, next_id, last_call, calls>>

\* session.close() and the return (jobs.py 259-261): the caller gets the
\* status record.  history also keeps the database as it was when the run
\* started and as it is when the run returns, whether another activation
\* was in progress at any time during this one, how many of its commits
\* wrote, and the row its insertion stage found first.
Return(id) ==
    /\ run[id].pc = "returning"
    /\ history' = Append(history,
          [run_status |-> run_status(run[id]), run_db_id |-> run[id].ingestion_run,
           before |-> run[id].before, after |-> db,
           overlapped |-> run[id].overlapped \/ Active \ {id} # {},
           commits |-> run[id].commits, seen |-> run[id].seen])
    /\ run' = Step(id, NoRun)
    /\ UNCHANGED <<db, tx, clock, raw, service_stats, hash_seed, incoming, normalized, current_run_id,
                   last_run_status, tasks, threads, next_id, last_call, calls>>

Next ==
    \/ Enter
    \/ \E id \in RunIds :
          /\ run[id].pc = "entered"
          /\ \E source \in incoming \cup {NONE}, readable \in BOOLEAN :
                LocateAndCheck(id, source, readable)
    \/ \E id \in RunIds : CreateRun(id)
    \/ \E id \in RunIds : CommitRun(id)
    \/ \E id \in RunIds : ParseAndReset(id)
    \/ \E id \in RunIds : StatEvent(id)
    \/ \E id \in RunIds : CopyStats(id)
    \/ \E id \in RunIds : InsertSelect(id)
    \/ \E id \in RunIds : InsertFirst(id)
    \/ \E id \in RunIds : InsertRest(id)
    \/ \E id \in RunIds : InsertCommit(id)
    \/ \E id \in RunIds :
          /\ run[id].pc = "reconciling"
          /\ \E n \in DOMAIN SummaryFields : ReconcileRun(id, n)
    \/ \E id \in RunIds : Finalize(id)
    \/ \E id \in RunIds : FinalizeCommit(id)
    \/ \E id \in RunIds : PackageAndDeliver(id)
    \/ \E id \in RunIds : ExceptUpdate(id)
    \/ \E id \in RunIds : ExceptCommit(id)
    \/ \E id \in RunIds : Finally(id)
    \/ \E id \in RunIds : Return(id)

Spec == Init /\ [][Next]_vars

SpecExchange == InitExchange /\ [][Next]_vars

SpecRejected == InitRejected /\ [][Next]_vars

\* the tables a run fills, without the run table
Data(s) ==
    [participants |-> s.participants,
     conversations |-> s.conversations,
     messages |-> s.messages,
     conversation_participants |-> s.conversation_participants,
     message_ingestion_tracking |-> s.message_ingestion_tracking]

\* an export whose messages all carry a sender with a name, a recipient and
\* a date, or an export of other tables only
WellFormedSource(hash) ==
    hash \in {"h1", "h4", "h5"}

\* C2 (the claim as stated): two runs in sequence on the same archive content
\* return SUCCESS, then SKIPPED, and the second run writes nothing.
C2_SuccessThenSkipped ==
    (/\ Len(history) >= 2
     /\ ~history[1].overlapped
     /\ ~history[2].overlapped
     /\ history[1].run_status.source_hash = history[2].run_status.source_hash
     /\ WellFormedSource(history[1].run_status.source_hash))
    => /\ history[1].run_status.status = "SUCCESS"
       /\ history[2].run_status.status = "SKIPPED"
       /\ history[2].after = history[2].before

\* C9 (the claim as stated): a run that fails in inserting_db leaves no
\* participant, conversation, junction, message or tracking row it wrote.
C9_FailedInsertPersistsNothing ==
    \A k \in DOMAIN history :
        (/\ history[k].run_status.status = "FAILED"
         /\ history[k].run_status.stage = "inserting_db"
         /\ ~history[k].overlapped)
        => Data(history[k].after) = Data(history[k].before)

\* C10 (the claim as stated): the run row of a failed run ends with status
\* failed, a completion time and the error text.
C10_FailedRunRowIsFailed ==
    \A k \in DOMAIN history :
        (/\ history[k].run_status.status = "FAILED"
         /\ history[k].run_db_id # 0)
        => LET row == history[k].after.ingestion_runs[history[k].run_db_id]
           IN /\ row.status = "failed"
              /\ row.completed_at # NoTime
              /\ row.error_message = history[k].run_status.error

\* C11 (the claim as stated): a run that reaches reconciliation reports
\* SUCCESS when the inserted message count equals the normalized message
\* count, and FAILED when the two differ.
C11_StatusFollowsMessageCounts ==
    \A k \in DOMAIN history :
        LET rs == history[k].run_status IN
        rs.reconciliation # NONE =>
            IF rs.db_inserted.messages = rs.normalized_counts.messages
            THEN rs.status = "SUCCESS"
            ELSE rs.status = "FAILED"

\* the stage values of the runs returned so far and of the run in progress
StageTraces ==
    {history[k].run_status.stages : k \in DOMAIN history}
        \cup {run[id].stages : id \in Active}

\* C16 (the claim as stated): the recorded stage only takes values of the
\* chain and moves along it in order, one stage at a time; a run's final stage
\* is completed exactly when its status is SUCCESS, and a run ends in SUCCESS,
\* FAILED or SKIPPED.
C16_StagesFollowChain ==
    /\ \A stages \in StageTraces :
          /\ Len(stages) <= Len(StageChain)
          /\ \A i \in DOMAIN stages : stages[i] = StageChain[i]
    /\ \A k \in DOMAIN history :
          /\ history[k].run_status.status \in {"SUCCESS", "FAILED", "SKIPPED"}
          /\ history[k].run_status.stage = "completed"
                <=> history[k].run_status.status = "SUCCESS"

\* IngestionJob.get_last_run_status
get_last_run_status == last_run_status

\* a status record as run_ingestion must return it
Returned(rs) ==
    /\ rs.status \in {"SUCCESS", "FAILED", "SKIPPED"}
    /\ rs.start_time # NoTime
    /\ rs.end_time # NoTime
    /\ rs.stage # NONE

\* C17 (the claim as stated, without its termination part): the record a
\* run_ingestion invocation returns has status SUCCESS, FAILED or SKIPPED, a
\* start time, an end time and a stage, and at the return
\* get_last_run_status() reports that record and is_running() is false.
C17_EveryRunReturns ==
    /\ [](\A k \in DOMAIN history : Returned(history[k].run_status))
    /\ [][Len(history') > Len(history) =>
             /\ get_last_run_status' = history'[Len(history')].run_status
             /\ ~(current_run_id' # NONE)]_vars

\* C18 (the claim as stated): once the committed database records a success
\* run for a content hash, check_zip_already_ingested answers true for that
\* hash in every later state.
C18_SuccessIsStable ==
    [][\A h \in ArchiveHashes :
          check_zip_already_ingested(db, h) => check_zip_already_ingested(db', h)]_vars

\* C19 (the claim as stated): a run row is created with status running and
\* its status changes only from running, to success or to failed; a row
\* committed with status success is never changed to failed.
C19_RunRowTransitions ==
    [][/\ \A i \in DOMAIN db.ingestion_runs :
             /\ i \in DOMAIN db'.ingestion_runs
             /\ db'.ingestion_runs[i].status # db.ingestion_runs[i].status
                   => /\ db.ingestion_runs[i].status = "running"
                      /\ db'.ingestion_runs[i].status \in {"success", "failed"}
       /\ \A i \in DOMAIN db'.ingestion_runs \ DOMAIN db.ingestion_runs :
             db'.ingestion_runs[i].status = "running"]_vars

\* the runs that ended in locating_source: no archive was found
SourceNotFoundRuns ==
    {k \in DOMAIN history : history[k].run_status.stage = "locating_source"}

\* C20: a run whose archive path is missing ends with status FAILED, creates
\* no run row and writes no table of the database.
\* From the moment it has found no archive to its return the run holds no
\* run row, no flushed statement and has committed nothing, whatever other
\* activations do meanwhile; it returns FAILED with FileNotFoundError; and
\* a run that no other activation ran next to returns on the database it
\* found at its start.
C20_MissingSourceMutatesNothing ==
    /\ \A id \in Active :
          run[id].stages = <<"locating_source">> =>
             /\ run[id].status = "FAILED"
             /\ run[id].ingestion_run = 0
             /\ ~run[id].lock
             /\ run[id].commits = 0
    /\ \A k \in SourceNotFoundRuns :
          /\ history[k].run_status.status = "FAILED"
          /\ history[k].run_status.error = "FileNotFoundError"
          /\ history[k].run_db_id = 0
          /\ history[k].commits = 0
          /\ ~history[k].overlapped => history[k].after = history[k].before

\* C20 witness: a run without archive has returned after running next to
\* another activation that committed rows meanwhile, on a database that
\* held run rows and messages before it started.
C20_Witness ==
    \E k \in SourceNotFoundRuns :
        /\ history[k].before.ingestion_runs # <<>>
        /\ history[k].before.messages # <<>>
        /\ history[k].overlapped
        /\ history[k].after # history[k].before

\* the runs whose archive could not be opened as a ZIP file
BadFormatRuns ==
    {k \in DOMAIN history : history[k].run_status.error = "BadZipFile"}

\* C21 (the claim as stated): a run whose archive exists but is corrupt ends
\* with status FAILED and leaves the persisted state as it found it.
C21_BadFormatMutatesNothing ==
    \A k \in BadFormatRuns :
        /\ history[k].run_status.status = "FAILED"
        /\ ~history[k].overlapped => history[k].after = history[k].before

\* the run rows of database s that carry run identifier run_id
RunRowsOf(s, run_id) ==
    {i \in DOMAIN s.ingestion_runs : s.ingestion_runs[i].run_id = run_id}

\* C24 (the claim as stated): every execution of run_ingestion, whatever its
\* outcome, leaves exactly one run row carrying its run identifier.
C24_OneRunRowPerExecution ==
    \A k \in DOMAIN history :
        Cardinality(RunRowsOf(history[k].after, history[k].run_status.run_id)) = 1

\* the runs whose insertion stage returned without an exception
InsertedRuns ==
    {k \in DOMAIN history : history[k].run_status.reconciliation # NONE}

\* the positions of an activation after its insertion stage has returned
\* and before the run leaves the try block
AfterInsertion ==
    {"committing", "reconciling", "finalizing_run", "finalizing_commit", "packaging"}

\* C30: whenever the insertion stage returns, the participants and
\* conversations entries of inserted_counts are the numbers of normalized
\* participants and conversations, whether the upserts created rows or found
\* them, and the orchestrator's reconciliation status is not WARNING.
C30_UpsertCallsAreCounted ==
    /\ \A k \in InsertedRuns :
          LET rs == history[k].run_status IN
          /\ rs.db_inserted.participants = rs.normalized_counts.participants
          /\ rs.db_inserted.conversations = rs.normalized_counts.conversations
          /\ rs.reconciliation # "WARNING"
    /\ \A id \in Active :
          run[id].pc \in AfterInsertion =>
             /\ run[id].inserted_counts.participants
                   = Len(run[id].normalized_data.participants)
             /\ run[id].inserted_counts.conversations
                   = Len(run[id].normalized_data.conversations)
             /\ run[id].reconciliation # "WARNING"

\* C30 witness: a run started on a database without participants; another
\* activation committed its rows after this run had normalized its archive,
\* so the first upsert of this run's insertion found a row; the run
\* upserted two participants and a conversation, created no row for them,
\* counted them all and reconciled with SUCCESS.
C30_Witness ==
    \E k \in InsertedRuns :
        /\ history[k].overlapped
        /\ history[k].before.participants = <<>>
        /\ history[k].seen # 0
        /\ history[k].run_status.db_inserted.participants = 2
        /\ history[k].run_status.db_inserted.conversations = 1
        /\ Len(history[k].after.participants) = 2
        /\ Len(history[k].after.conversations) = 1
        /\ history[k].run_status.reconciliation = "SUCCESS"

(***************************************************************************)
(* Reconciliation (app/services/reconcile.py and IngestionJob's own        *)
(* _reconcile_data) as functions of a source table map and a map of        *)
(* inserted counts.  A table map is a function whose domain is the set of  *)
(* keys of the Python dict; a source table is a list of records, of which  *)
(* only the length is read.                                                *)
(***************************************************************************)

\* Largest number of records in a source table, and largest inserted count.
MaxCount == 2

ReconTables == {"participants", "conversations", "messages"}

\* a list of n source records
Records(n) == [k \in 1..n |-> [id |-> k]]

\* dicts over some of the tables, with values in V
TableMaps(V) == UNION {[keys -> V] : keys \in SUBSET ReconTables}

\* source_data.get(table_name, [])
source_records_of(source_data, table_name) ==
    IF table_name \in DOMAIN source_data THEN source_data[table_name] ELSE <<>>

\* db_counts.get(table_name, 0)
db_count_of(db_counts, table_name) ==
    IF table_name \in DOMAIN db_counts THEN db_counts[table_name] ELSE 0

\* ReconciliationService._reconcile_table (checksum and issue texts left out)
_reconcile_table(table_name, source_records, db_count) ==
    [source_count |-> Len(source_records),
     db_count |-> db_count,
     matched |-> Len(source_records) = db_count,
     difference |-> db_count - Len(source_records)]

\* Mutant of reconcile: any mismatch is reported as FAILURE, never PARTIAL.
reconcile_no_partial(source_data, db_counts) ==
    LET names == DOMAIN source_data \cup DOMAIN db_counts
        tables == [t \in names |->
                     _reconcile_table(t, source_records_of(source_data, t),
                                      db_count_of(db_counts, t))]
        tables_matched == Cardinality({t \in names : tables[t].matched})
        tables_mismatched == Cardinality({t \in names : ~tables[t].matched})
    IN [tables |-> tables,
        summary |-> [total_tables |-> Cardinality(names),
                     tables_matched |-> tables_matched,
                     tables_mismatched |-> tables_mismatched],
        status |-> IF tables_mismatched = 0 THEN "SUCCESS" ELSE "FAILURE"]

\* ReconciliationService.reconcile: the report
reconcile(source_data, db_counts) ==
    LET names == DOMAIN source_data \cup DOMAIN db_counts
        tables == [t \in names |->
                     _reconcile_table(t, source_records_of(source_data, t),
                                      db_count_of(db_counts, t))]
        tables_matched == Cardinality({t \in names : tables[t].matched})
        tables_mismatched == Cardinality({t \in names : ~tables[t].matched})
    IN [tables |-> tables,
        summary |-> [total_tables |-> Cardinality(names),
                     tables_matched |-> tables_matched,
                     tables_mismatched |-> tables_mismatched],
        status |-> IF tables_mismatched = 0 THEN "SUCCESS"
                   ELSE IF tables_matched > 0 THEN "PARTIAL"
                   ELSE "FAILURE"]

\* the normalized data _reconcile_data reads: normalized_data.get(table, [])
normalized_tables(source_data) ==
    [participants |-> source_records_of(source_data, "participants"),
     conversations |-> source_records_of(source_data, "conversations"),
     messages |-> source_records_of(source_data, "messages")]

ReconInit ==
    /\ \E source_data \in TableMaps({Records(n) : n \in 0..MaxCount}),
          db_counts \in TableMaps(0..MaxCount) :
            raw = [source_data |-> source_data, db_counts |-> db_counts]
    /\ history = <<>>
    /\ last_call = NoCall
    /\ normalized = <<>>
    /\ db = EmptyDb
    /\ tx = EmptyDb
    /\ clock = 1
    /\ calls = NoKeys
    /\ service_stats = ZeroStats
    /\ hash_seed = <<>>
    /\ incoming = {}
    /\ run = NoRun
    /\ current_run_id = NONE
    /\ last_run_status = NoStatus
    /\ tasks = {}
    /\ threads = {}
    /\ next_id = 1

ReconFrame ==
    UNCHANGED <<db, tx, clock, raw, service_stats, hash_seed, incoming, normalized, run, current_run_id,
                last_run_status, tasks, threads, next_id, calls>>

\* reconciliation_service.reconcile(source_data, db_counts): the report is
\* returned and appended to reconciliation_history.
Reconcile ==
    /\ history = <<>>
    /\ last_call' = [op |-> "reconcile"]
    /\ history' = Append(history, reconcile(raw.source_data, raw.db_counts))
    /\ ReconFrame

\* IngestionJob._reconcile_data(normalized_data, inserted_counts): the
\* orchestrator passes the counts of all three entity tables.
ReconcileData ==
    /\ history = <<>>
    /\ DOMAIN raw.db_counts = ReconTables
    /\ last_call' = [op |-> "_reconcile_data"]
    /\ history' = Append(history,
          [status |-> _reconcile_data(normalized_tables(raw.source_data),
                                      raw.db_counts)])
    /\ ReconFrame

ReconNext == Reconcile \/ ReconcileData

SpecReconcile == ReconInit /\ [][ReconNext]_vars

\* the tables reconcile looks at, and those whose two counts agree
AllTables == DOMAIN raw.source_data \cup DOMAIN raw.db_counts

MatchedTables ==
    {t \in AllTables : Len(source_records_of(raw.source_data, t))
                          = db_count_of(raw.db_counts, t)}

\* C12 (the claim as stated): reconcile reports SUCCESS iff every table
\* matched, PARTIAL iff at least one table matched and at least one did not,
\* FAILURE iff no table matched.
C12_StatusPartition ==
    last_call.op = "reconcile" =>
        /\ history[1].status = "SUCCESS" <=> MatchedTables = AllTables
        /\ history[1].status = "PARTIAL" <=>
              (MatchedTables # {} /\ MatchedTables # AllTables)
        /\ history[1].status = "FAILURE" <=> MatchedTables = {}

\* C12 (amended): as above, with FAILURE iff there is at least one table and
\* none matched; with no table on either side the report is SUCCESS.
C12_StatusPartitionNonEmpty ==
    last_call.op = "reconcile" =>
        /\ history[1].status \in {"SUCCESS", "PARTIAL", "FAILURE"}
        /\ history[1].status = "SUCCESS" <=> MatchedTables = AllTables
        /\ history[1].status = "PARTIAL" <=>
              (MatchedTables # {} /\ MatchedTables # AllTables)
        /\ history[1].status = "FAILURE" <=>
              (AllTables # {} /\ MatchedTables = {})
        /\ \A t \in AllTables : history[1].tables[t].matched <=> t \in MatchedTables

\* C12 witness: participants agree, messages are two short, the report is
\* PARTIAL with difference -2 on messages.
C12_Witness ==
    /\ last_call.op = "reconcile"
    /\ AllTables = {"participants", "messages"}
    /\ history[1].tables["participants"].matched
    /\ history[1].tables["messages"].difference = -2
    /\ history[1].status = "PARTIAL"

\* the three checks of the orchestrator's report
CountMatches(t) ==
    Len(source_records_of(raw.source_data, t)) = raw.db_counts[t]

\* C13: the orchestrator's report is FAIL whenever the message counts differ,
\* WARNING only when messages match and participants or conversations
\* differ, SUCCESS only when all three counts match.
C13_MessageCheckDecides ==
    last_call.op = "_reconcile_data" =>
        /\ ~CountMatches("messages") => history[1].status = "FAIL"
        /\ history[1].status = "WARNING" =>
              /\ CountMatches("messages")
              /\ ~CountMatches("participants") \/ ~CountMatches("conversations")
        /\ history[1].status = "SUCCESS" =>
              \A t \in ReconTables : CountMatches(t)
        /\ history[1].status \in {"SUCCESS", "WARNING", "FAIL"}

\* C13 witness: messages and participants both differ and the report is FAIL.
C13_Witness ==
    /\ last_call.op = "_reconcile_data"
    /\ ~CountMatches("messages")
    /\ ~CountMatches("participants")
    /\ history[1].status = "FAIL"

(***************************************************************************)
(* SpecFlight: the callers of run_ingestion.  POST /run-now answers in the *)
(* event loop and leaves the run to a background task, which a worker      *)
(* thread starts after the response; the scheduler thread calls            *)
(* scheduled_ingestion when the cron trigger fires (APScheduler keeps one  *)
(* instance of a job at a time).  An activation of run_ingestion sets      *)
(* current_run_id on entry; its finally block stores the status record,    *)
(* then clears current_run_id, then closes the session, and only then does *)
(* run_ingestion return.  Each store is a step of its own here, because    *)
(* requests read the two fields from other threads at any moment.          *)
(***************************************************************************)

\* Number of triggers (requests and cron firings) in one behaviour.
MaxTriggers == 3

FlightInit ==
    /\ current_run_id = NONE
    /\ last_run_status = NoStatus
    /\ tasks = {}
    /\ threads = {}
    /\ next_id = 1
    /\ history = <<>>
    /\ db = EmptyDb
    /\ tx = EmptyDb
    /\ clock = 1
    /\ raw = <<>>
    /\ normalized = <<>>
    /\ run = NoRun
    /\ last_call = NoCall
    /\ calls = NoKeys
    /\ service_stats = ZeroStats
    /\ hash_seed = <<>>
    /\ incoming = {}

FlightFrame == UNCHANGED <<db, tx, clock, raw, service_stats, hash_seed, incoming, normalized, run, last_call, calls>>

\* IngestionJob.is_running
is_running == current_run_id # NONE

\* request.zip_path of POST /run-now: not given, a file that exists, or a
\* path that names no file
ZipPaths == {NONE, "present.zip", "missing.zip"}

\* Path(request.zip_path).exists()
PathExists(zip_path) == zip_path = "present.zip"

\* routes.run_now: 409 while is_running(); 404 when a zip_path is given and
\* names no file; otherwise the run is queued as a background task and the
\* request is answered.
ApiRunNow ==
    /\ next_id <= MaxTriggers
    /\ next_id' = next_id + 1
    /\ \E zip_path \in ZipPaths :
         IF is_running
         THEN /\ history' = Append(history, [request |-> next_id, status_code |-> 409])
              /\ UNCHANGED tasks
         ELSE IF zip_path # NONE /\ ~PathExists(zip_path)
         THEN /\ history' = Append(history, [request |-> next_id, status_code |-> 404])
              /\ UNCHANGED tasks
         ELSE /\ history' = Append(history, [request |-> next_id, status_code |-> 200])
              /\ tasks' = tasks \cup {uuid4(next_id)}
    /\ UNCHANGED <<current_run_id, last_run_status, threads>>
    /\ FlightFrame

\* Mutant of TaskStart: the run publishes its status record on entry, with
\* status RUNNING.
TaskStart_publishes_status ==
    /\ \E t \in tasks :
        /\ tasks' = tasks \ {t}
        /\ threads' = threads \cup {[run_id |-> t, origin |-> "api", pc |-> "running"]}
        /\ current_run_id' = t
        /\ last_run_status' = [run_id |-> t, status |-> "RUNNING"]
    /\ UNCHANGED <<next_id, history>>
    /\ FlightFrame

\* The worker thread starts a queued background task: run_ingestion is
\* entered and sets current_run_id.
TaskStart ==
    /\ \E t \in tasks :
        /\ tasks' = tasks \ {t}
        /\ threads' = threads \cup {[run_id |-> t, origin |-> "api", pc |-> "running"]}
        /\ current_run_id' = t
    /\ UNCHANGED <<last_run_status, next_id, history>>
    /\ FlightFrame

\* jobs.scheduled_ingestion: the cron trigger fires and run_ingestion is
\* entered, without a look at is_running().  The scheduler counts an
\* instance of the job until scheduled_ingestion has returned.
SchedulerTrigger ==
    /\ next_id <= MaxTriggers
    /\ \A th \in threads : th.origin # "scheduler"
    /\ next_id' = next_id + 1
    /\ threads' = threads \cup {[run_id |-> uuid4(next_id), origin |-> "scheduler",
                                  pc |-> "running"]}
    /\ current_run_id' = uuid4(next_id)
    /\ UNCHANGED <<last_run_status, tasks, history>>
    /\ FlightFrame

\* self.last_run_status = run_status in the finally block (jobs.py 257):
\* the run has left the try statement with status SUCCESS, FAILED or
\* SKIPPED and stores its record; current_run_id is as it was.
FinallyPublish ==
    /\ \E th \in threads, status \in {"SUCCESS", "FAILED", "SKIPPED"} :
        /\ th.pc = "running"
        /\ threads' = (threads \ {th}) \cup {[th EXCEPT !.pc = "published"]}
        /\ last_run_status' = [run_id |-> th.run_id, status |-> status]
    /\ UNCHANGED <<current_run_id, tasks, next_id, history>>
    /\ FlightFrame

\* self.current_run_id = None (jobs.py 258), whichever activation had set
\* the field.
FinallyClear ==
    /\ \E th \in threads :
        /\ th.pc = "published"
        /\ threads' = (threads \ {th}) \cup {[th EXCEPT !.pc = "cleared"]}
    /\ current_run_id' = NONE
    /\ UNCHANGED <<last_run_status, tasks, next_id, history>>
    /\ FlightFrame

\* session.close() and return run_status (jobs.py 259-261): the activation
\* ends; the task or scheduled_ingestion returns with it.
RunReturn ==
    /\ \E th \in threads :
        /\ th.pc = "cleared"
        /\ threads' = threads \ {th}
    /\ UNCHANGED <<current_run_id, last_run_status, tasks, next_id, history>>
    /\ FlightFrame

FlightNext ==
    ApiRunNow \/ TaskStart \/ SchedulerTrigger \/ FinallyPublish \/ FinallyClear \/ RunReturn

SpecFlight == FlightInit /\ [][FlightNext]_vars

\* the run ids of the activations of run_ingestion in progress
InFlightIds == {th.run_id : th \in threads}

\* the run ids of the activations that have not reached their finally block
BeforeFinallyIds == {th.run_id : th \in {x \in threads : x.pc = "running"}}

C28_FlagTracksRuns ==
    /\ is_running <=> threads # {}
    /\ tasks # {} => is_running

\* C1 (the claim as stated): at most one activation of run_ingestion is in
\* flight at any time.
C1_SingleFlight == Cardinality(threads) <= 1

====
